---- MODULE Spec2Model ----
(***************************************************************************)
(* A model of alpha-evolve's search-and-evaluation engine:                 *)
(*   - ProgramDatabase   (alphaevolve/core/program_database.py)            *)
(*   - EvaluationManager (alphaevolve/core/evaluation_manager.py)          *)
(*   - Controller        (alphaevolve/core/controller.py)                  *)
(*   - LLMInterface      (alphaevolve/core/llm_interface.py)               *)
(* Scores are scaled by ten: the float 0.6 is the integer 6, 1.0 is 10.    *)
(***************************************************************************)
EXTENDS Integers, Sequences, FiniteSets, TLC

(***************************************************************************)
(* Bounds of the model.                                                    *)
(***************************************************************************)
MaxPrograms == 3
MaxPreload == 2
MaxCapacity == 2
MaxScore == 1
MaxAddsBest == 5
MaxScoreBest == 5
MaxCapacityBest == 3
MaxSamplePrograms == 5
MaxScoreSample == 3
MaxStoreAdds == 2
MaxStoreCapacity == 1
MaxAncestryAdds == 3
MaxAncestryCapacity == 2
MaxDepth == 2
MaxWorkers == 2
MaxConcurrent == 2
MaxBatch == 2
MaxCalls == 1
MaxIterations == 2
MaxBudget == 1
MaxCtlCapacity == 1
MaxRetryAttempts == 3
MaxFallbacks == 2
MaxGenerateCalls == 2
MaxMetaIterations == 2

(***************************************************************************)
(* Values of the program.                                                  *)
(***************************************************************************)
\* float("-inf"), the default of scores.get(metric, float("-inf"))
NegInf == -1000
\* parent_id = None
NoParent == 0

ArchiveModes == {"pareto", "best", "diverse"}

VARIABLES
  archive_mode,      \* ProgramDatabase.archive_mode
  population_size,   \* ProgramDatabase.population_size
  metrics,           \* ProgramDatabase.metrics, index 1 is the primary metric
  backend,           \* "file": ProgramDatabase, "postgresql": its subclass
  programs,          \* ProgramDatabase.programs, in dict (insertion) order
  disk,              \* the durable records the loader reads: the <id>.json
                     \* files, or the rows of the programs table
  fallback_files,    \* <id>.json files the postgresql fallback wrote
  with_metadata,     \* ids of the records created with a non-empty metadata
  marked_inactive,   \* ids whose durable metadata holds "active": false
  next_id,           \* the next uuid4 (ids are unique)
  clock,             \* datetime.now() of the last created Program
  n_added,           \* add_program calls that returned since construction
  to_keep,           \* _update_population's to_keep of the last add_program
  add_result,        \* how the last add_program call ended
  query              \* the last sample_programs / get_best_program /
                     \* get_top_programs call since the last add_program,
                     \* and what it returned

dbconfig == <<archive_mode, population_size, metrics, backend>>

dbvars == <<dbconfig, programs, disk, fallback_files, with_metadata,
            marked_inactive, next_id, clock, n_added, to_keep, add_result,
            query>>

VARIABLES
  use_subprocess,      \* EvaluationManager.use_subprocess
  max_workers,         \* EvaluationManager.max_workers, size of the executor
  cascade_thresholds,  \* EvaluationManager.cascade_thresholds, in dict order
  calls,               \* the evaluate() coroutines, in creation order
  work_queue,          \* work items the ThreadPoolExecutor has not started
  finish_order,        \* the batch's tasks in the order they completed
  batch,               \* the batch_evaluate() call
  tmp_files,           \* the temporary files that exist: <<call, "program">>
                       \* and <<call, "script">>
  cwd,                 \* os.getcwd() of the process
  shut_down            \* cleanup() has shut the executor down

evalvars == <<use_subprocess, max_workers, cascade_thresholds, calls,
              work_queue, finish_order, batch, tmp_files, cwd, shut_down>>

VARIABLES
  ctl_pc,             \* where Controller.run() stands
  current_iteration,  \* Controller.current_iteration
  stopped,            \* Controller.stopped
  max_iterations,     \* Controller.max_iterations
  budget,             \* Controller.budget
  target_score,       \* Controller.target_score
  call_count,         \* LLMInterface.call_count
  failed_calls,       \* LLMInterface.failed_calls
  parent_program,     \* the parent sample_programs returned this iteration
  eval_scores,        \* run()'s scores, what evaluate returned this iteration
  run_result,         \* what run() returned
  failure,            \* the call whose exception left run()
  ops,                \* the calls run() made and the stop() calls, in order;
                      \* "except" is an exception caught by the except block
  disk_at_start,      \* number of records created when the iteration began
  child_program,      \* run()'s child_program, what apply_changes returned
  meta_prompter,      \* a MetaPrompter was handed to the constructor
  templates,          \* PromptSampler.templates, name to text
  evolve_calls,       \* the evolve_prompts calls run() made: the iteration
                      \* and the two arguments
  elapsed_hours       \* hours since run() was called

ctlconfig == <<max_iterations, budget, target_score, meta_prompter>>

\* the state of the prompt sampler and of the meta-prompt evolution
metavars == <<templates, evolve_calls>>

ctlvars == <<ctl_pc, current_iteration, stopped, ctlconfig, call_count,
             failed_calls, parent_program, eval_scores, run_result, failure,
             ops, disk_at_start, elapsed_hours, child_program, metavars>>

VARIABLES
  retry_attempts,   \* LLMInterface.retry_attempts
  fallback_models,  \* LLMInterface.fallback_models
  gen_pc,           \* where the generate() call stands
  attempt,          \* the loop index of generate(): attempt, or the position
                    \* of fallback_model in fallback_models
  llm_calls         \* the _call_llm calls of the generate() call, in order,
                    \* with the model and whether the call succeeded

llmvars == <<retry_attempts, fallback_models, gen_pc, attempt, llm_calls>>

vars == <<dbvars, evalvars, ctlvars, llmvars>>

\* retry_attempts, the default
RetryAttempts == 3

\* an LLMInterface with the default configuration that nothing has called
LLMIdle ==
  /\ retry_attempts = RetryAttempts
  /\ fallback_models = <<>>
  /\ gen_pc = "idle"
  /\ attempt = 0
  /\ llm_calls = <<>>

\* PromptSampler.templates after construction without a templates directory
DefaultTemplates == [default |-> "default_template"]

\* a Controller whose run() was not called
CtlIdle ==
  /\ ctl_pc = "idle"
  /\ current_iteration = 0
  /\ stopped = FALSE
  /\ max_iterations = 0
  /\ budget = <<>>
  /\ target_score = <<>>
  /\ call_count = 0
  /\ failed_calls = 0
  /\ parent_program = <<>>
  /\ eval_scores = <<>>
  /\ run_result = <<>>
  /\ failure = "none"
  /\ ops = <<>>
  /\ disk_at_start = 0
  /\ elapsed_hours = 0
  /\ child_program = ""
  /\ meta_prompter = FALSE
  /\ templates = DefaultTemplates
  /\ evolve_calls = <<>>
  /\ LLMIdle

\* no batch_evaluate call has been made
NoBatch == [status |-> "none", programs |-> <<>>, max_concurrent |-> 0,
            results |-> <<>>]

\* the directory the process was started in, and EvaluationManager.working_dir
StartDir == "start"

WorkingDir == "work"

\* an EvaluationManager nothing has called yet
EvalIdle ==
  /\ use_subprocess = FALSE
  /\ max_workers = 1
  /\ cascade_thresholds = <<>>
  /\ calls = <<>>
  /\ work_queue = <<>>
  /\ finish_order = <<>>
  /\ batch = NoBatch
  /\ tmp_files = {}
  /\ cwd = StartDir
  /\ shut_down = FALSE

(***************************************************************************)
(* Helpers on sequences.                                                   *)
(***************************************************************************)
Range(s) == {s[i] : i \in DOMAIN s}

Min(a, b) == IF a < b THEN a ELSE b

\* Python's s[:n] for n >= 0
Take(s, n) == SubSeq(s, 1, Min(n, Len(s)))

\* 1-based position that index i takes in sorted(..., reverse=True): the sort
\* is stable, equal keys keep their original order
Rank(k, i) ==
  Cardinality({j \in DOMAIN k : k[j] > k[i] \/ (k[j] = k[i] /\ j < i)}) + 1

\* sorted(s, key=..., reverse=True) where k[i] is the key of s[i]
SortedReverse(s, k) ==
  [p \in 1..Len(s) |-> s[CHOOSE i \in 1..Len(s) : Rank(k, i) = p]]

Ids(s) == [i \in 1..Len(s) |-> s[i].id]

\* [x for x in s if x.id not in ids]
WithoutIds(s, ids) == SelectSeq(s, LAMBDA p : p.id \notin ids)

\* [x for x in s if x.id in ids]
WithIds(s, ids) == SelectSeq(s, LAMBDA p : p.id \in ids)

(***************************************************************************)
(* Program records and score lookups.                                      *)
(***************************************************************************)
\* Program(id, code, scores, parent_id, timestamp)
Program(id, code, scores, parent_id, timestamp) ==
  [id |-> id, code |-> code, scores |-> scores, parent_id |-> parent_id,
   timestamp |-> timestamp]

\* a lookup whose default is the best possible value instead of the worst
ScoreGetMissingFirst(p, metric) ==
  IF metric \in DOMAIN p.scores THEN p.scores[metric] ELSE 0 - NegInf

\* p.scores.get(metric, float("-inf"))
ScoreGet(p, metric) ==
  IF metric \in DOMAIN p.scores THEN p.scores[metric] ELSE NegInf

PrimaryKeys(s, ms) == [i \in 1..Len(s) |-> ScoreGet(s[i], ms[1])]

SortByPrimary(s, ms) == SortedReverse(s, PrimaryKeys(s, ms))

SortByNewest(s) == SortedReverse(s, [i \in 1..Len(s) |-> s[i].timestamp])

(***************************************************************************)
(* Retention policies.                                                     *)
(***************************************************************************)
\* the inner loop of _get_pareto_front: p2 dominates p1 unless some metric
\* has p2_score < p1_score
P2Dominates(p2, p1, ms) ==
  \A m \in Range(ms) : ~(ScoreGet(p2, m) < ScoreGet(p1, m))

Dominated(p1, program_list, ms) ==
  \E j \in 1..Len(program_list) :
    /\ program_list[j].id # p1.id
    /\ P2Dominates(program_list[j], p1, ms)

NonDominated(program_list, ms) ==
  SelectSeq(program_list, LAMBDA p : ~Dominated(p, program_list, ms))

\* a front that is not filled up when it is shorter than population_size
_get_pareto_front_unfilled(program_list, ms, cap) ==
  Ids(Take(NonDominated(program_list, ms), cap))

_get_pareto_front(program_list, ms, cap) ==
  LET front == NonDominated(program_list, ms)
      remaining == SortByPrimary(
                     WithoutIds(program_list, Range(Ids(front))), ms)
      filled == IF Len(front) < cap
                  THEN front \o Take(remaining, cap - Len(front))
                  ELSE front
  IN  Ids(Take(filled, cap))

\* a best half that is rounded up: (population_size + 1) // 2
_get_diverse_population_half_up(progs, ms, cap) ==
  LET best_programs == SortByPrimary(progs, ms)
      newest_programs == SortByNewest(progs)
      best_half == (cap + 1) \div 2
      from_best == Take(best_programs, best_half)
      rest == WithoutIds(newest_programs, Range(Ids(from_best)))
  IN  Ids(from_best \o Take(rest, cap - Len(from_best)))

_get_diverse_population(progs, ms, cap) ==
  LET best_programs == SortByPrimary(progs, ms)
      newest_programs == SortByNewest(progs)
      best_half == cap \div 2
      from_best == Take(best_programs, best_half)
      rest == WithoutIds(newest_programs, Range(Ids(from_best)))
  IN  Ids(from_best \o Take(rest, cap - Len(from_best)))

\* a slice that is one too long: sorted_programs[:population_size + 1]
BestIdsOffByOne(progs, ms, cap) == Ids(Take(SortByPrimary(progs, ms), cap + 1))

\* a sort without reverse=True: the lowest scores come first
BestIdsAscending(progs, ms, cap) ==
  LET sorted == SortByPrimary(progs, ms)
      n == Len(sorted)
  IN  Ids(Take([i \in 1..n |-> sorted[n + 1 - i]], cap))

\* a ranking in which, of equal scores, the newer record comes first
BestIdsNewerFirst(progs, ms, cap) ==
  LET n == Len(progs)
      reversed == [i \in 1..n |-> progs[n + 1 - i]]
  IN  Ids(Take(SortByPrimary(reversed, ms), cap))

\* the "best" branch of _update_population
BestIds(progs, ms, cap) == Ids(Take(SortByPrimary(progs, ms), cap))

\* to_keep of _update_population, <<>> when the population fits
ToKeep(progs, mode, ms, cap) ==
  IF Len(progs) <= cap THEN <<>>
  ELSE IF mode = "pareto" THEN _get_pareto_front(progs, ms, cap)
  ELSE IF mode = "best" THEN BestIds(progs, ms, cap)
  ELSE _get_diverse_population(progs, ms, cap)

_update_population(progs, mode, ms, cap) ==
  IF Len(progs) <= cap THEN progs
  ELSE WithIds(progs, Range(ToKeep(progs, mode, ms, cap)))

(***************************************************************************)
(* Operations of the ProgramDatabase.                                      *)
(***************************************************************************)
\* no add_program call was made on this archive object
NoAdd == [id |-> 0, fault |-> "none", raised |-> FALSE, logged |-> FALSE]

\* no query was made on this archive object
NoQuery == [op |-> "none", metric |-> "", limit |-> 0, parent |-> <<>>,
            result |-> <<>>]

\* the storage faults an add_program call may meet.  "record": writing the
\* durable record fails (the json.dump of the file archive, the INSERT of the
\* postgresql archive); "code_file": the <id>.py write after it fails;
\* "all": the INSERT and the fallback's JSON write both fail; "mark": the
\* UPDATE that marks evicted rows fails
Faults(store) ==
  IF store = "file" THEN {"none", "record", "code_file"}
  ELSE {"none", "record", "all", "mark"}

\* a _save_program whose exception is swallowed without a trace
_save_program_swallowed(store, fault) ==
  [durable |-> IF fault = "none" \/ fault = "mark" THEN "disk" ELSE "nowhere",
   raised |-> FALSE,
   logged |-> FALSE]

\* _save_program: where the record became durable, whether the exception
\* left add_program and whether logger.error was called
_save_program(store, fault) ==
  IF store = "file"
    THEN [durable |-> IF fault = "record" THEN "nowhere" ELSE "disk",
          raised |-> fault \in {"record", "code_file"},
          logged |-> FALSE]
    ELSE [durable |-> IF fault = "record" THEN "fallback"
                      ELSE IF fault = "all" THEN "nowhere" ELSE "disk",
          raised |-> fault = "all",
          logged |-> fault \in {"record", "all"}]

\* the durable records that _update_population marks inactive.  The file
\* archive writes nothing; the postgresql archive runs
\* metadata = metadata || '{"active": false}', which leaves the NULL that an
\* empty metadata was stored as, and only logs a failure of the UPDATE
MarkedInactive(store, fault, removed, described) ==
  IF store = "postgresql" /\ fault # "mark"
    THEN removed \cap described
    ELSE {}

\* creation timestamps only decide anything under the diverse policy; two
\* programs created within the clock's resolution share a timestamp
Ticks == IF archive_mode = "diverse" THEN {0, 1} ELSE {1}

\* add_program: insert in memory, _save_program, _update_population.  An
\* exception of _save_program leaves add_program before _update_population
add_program(code, scores, parent_id, tick, described, fault) ==
  LET new_program == Program(next_id, code, scores, parent_id, clock + tick)
      inserted == Append(programs, new_program)
      saved == _save_program(backend, fault)
      kept == IF saved.raised THEN inserted
              ELSE _update_population(inserted, archive_mode, metrics,
                                      population_size)
      removed == Range(Ids(inserted)) \ Range(Ids(kept))
      now_described == IF described THEN with_metadata \cup {next_id}
                       ELSE with_metadata
  IN  /\ programs' = kept
      /\ to_keep' = IF saved.raised THEN <<>>
                    ELSE ToKeep(inserted, archive_mode, metrics,
                                population_size)
      /\ disk' = IF saved.durable = "disk" THEN Append(disk, new_program)
                 ELSE disk
      /\ fallback_files' = IF saved.durable = "fallback"
                             THEN Append(fallback_files, new_program)
                           ELSE fallback_files
      /\ with_metadata' = now_described
      /\ marked_inactive' = marked_inactive \cup
                              MarkedInactive(backend, fault, removed,
                                             now_described)
      /\ next_id' = next_id + 1
      /\ clock' = clock + tick
      /\ n_added' = IF saved.raised THEN n_added ELSE n_added + 1
      /\ add_result' = [id |-> next_id, fault |-> fault,
                        raised |-> saved.raised, logged |-> saved.logged]
      /\ query' = NoQuery
      /\ UNCHANGED dbconfig

\* partial score mappings over the metric names ms with values 1..top
ScoreMaps(ms, top) == UNION {[D -> 1..top] : D \in SUBSET Range(ms)}

Codes == {"def v(): return 1"}

Add ==
  /\ Len(disk) < MaxPrograms
  /\ \E s \in ScoreMaps(metrics, MaxScore) : \E c \in Codes : \E t \in Ticks :
       add_program(c, s, NoParent, t, FALSE, "none")
  /\ UNCHANGED <<evalvars, ctlvars, llmvars>>

(***************************************************************************)
(* Construction: _load_existing_programs reads every record left on disk   *)
(* by an earlier run, in directory-listing order.                          *)
(***************************************************************************)
Configs == {<<"best", <<"accuracy">>>>, <<"diverse", <<"accuracy">>>>,
            <<"pareto", <<"accuracy", "performance">>>>}

\* records an earlier run left on disk: ids 1..n, timestamps non-decreasing
StoredRuns(mode, ms) ==
  UNION {{d \in [1..n -> [id : 1..n, code : Codes,
                          scores : ScoreMaps(ms, MaxScore),
                          parent_id : {NoParent},
                          timestamp : 0..(IF mode = "diverse" THEN 1 ELSE 0)]] :
            \A i \in 1..n : /\ d[i].id = i
                            /\ i > 1 => d[i-1].timestamp <= d[i].timestamp}
         : n \in 0..MaxPreload}

\* the orders os.listdir may list a stored run in
Listings(d) ==
  {l \in [1..Len(d) -> Range(d)] : \A i \in 1..Len(d) : \E j \in 1..Len(d) : l[j] = d[i]}

InitDB(cfg, cap, d, listing) ==
  /\ archive_mode = cfg[1]
  /\ metrics = cfg[2]
  /\ population_size = cap
  /\ backend = "file"
  /\ disk = d
  /\ programs = listing
  /\ fallback_files = <<>>
  /\ with_metadata = {}
  /\ marked_inactive = {}
  /\ add_result = NoAdd
  /\ query = NoQuery
  /\ next_id = Len(d) + 1
  /\ clock = IF Len(d) = 0 THEN 0 ELSE d[Len(d)].timestamp
  /\ n_added = 0
  /\ to_keep = <<>>
  /\ EvalIdle

Init ==
  \E cfg \in Configs : \E cap \in 1..MaxCapacity :
    \E d \in StoredRuns(cfg[1], cfg[2]) : \E l \in Listings(d) :
      InitDB(cfg, cap, d, l) /\ CtlIdle

Next == Add

Spec == Init /\ [][Next]_vars

(***************************************************************************)
(* The best policy on a fresh results directory with one metric.           *)
(***************************************************************************)
InitBest ==
  /\ \E cap \in 1..MaxCapacityBest :
       InitDB(<<"best", <<"accuracy">>>>, cap, <<>>, <<>>)
  /\ CtlIdle

AddBest ==
  /\ Len(disk) < MaxAddsBest
  /\ \E s \in ScoreMaps(metrics, MaxScoreBest) : \E c \in Codes :
       add_program(c, s, NoParent, 1, FALSE, "none")
  /\ UNCHANGED <<evalvars, ctlvars, llmvars>>

NextBest == AddBest

SpecBest == InitBest /\ [][NextBest]_vars

(***************************************************************************)
(* sample_programs on a population that fits its capacity.                 *)
(***************************************************************************)
\* the parents sample_programs() may return: with three or more programs
\* and uuid4().int % 10 < 7 one of the top third, else any program
SampleParents(progs, ms) ==
  LET sorted_programs == SortByPrimary(progs, ms)
      n == Len(sorted_programs)
      third == IF n \div 3 > 1 THEN n \div 3 ELSE 1
      top_third == Take(sorted_programs, third)
  IN  (IF n >= 3 THEN Range(top_third) ELSE {}) \cup Range(sorted_programs)

\* inspiration_candidates[:min(3, len(inspiration_candidates))]
InspirationLimit == 3

\* inspirations taken from the whole sorted list, the parent included
InspirationsWithParent(progs, ms, parent) ==
  LET sorted_programs == SortByPrimary(progs, ms)
  IN  Take(sorted_programs, Min(InspirationLimit, Len(sorted_programs)))

\* the inspirations sample_programs returns with the parent it picked
Inspirations(progs, ms, parent) ==
  LET sorted_programs == SortByPrimary(progs, ms)
      inspiration_candidates == WithoutIds(sorted_programs, {parent.id})
  IN  Take(inspiration_candidates,
           Min(InspirationLimit, Len(inspiration_candidates)))

\* sample_programs(): ValueError on an empty population
sample_programs ==
  /\ IF programs = <<>>
       THEN query' = [NoQuery EXCEPT !.op = "sample_raised"]
       ELSE \E parent \in SampleParents(programs, metrics) :
              query' = [op |-> "sample", metric |-> "", limit |-> 0,
                        parent |-> <<parent>>,
                        result |-> Inspirations(programs, metrics, parent)]
  /\ UNCHANGED <<dbconfig, programs, disk, fallback_files, with_metadata,
                 marked_inactive, next_id, clock, n_added, to_keep,
                 add_result>>

InitSample ==
  /\ InitDB(<<"best", <<"accuracy">>>>, MaxSamplePrograms, <<>>, <<>>)
  /\ CtlIdle

AddSample ==
  /\ Len(disk) < MaxSamplePrograms
  /\ \E s \in ScoreMaps(metrics, MaxScoreSample) : \E c \in Codes :
       add_program(c, s, NoParent, 1, FALSE, "none")
  /\ UNCHANGED <<evalvars, ctlvars, llmvars>>

Sample ==
  /\ query.op # "sample_raised"
  /\ sample_programs
  /\ UNCHANGED <<evalvars, ctlvars, llmvars>>

NextSample == AddSample \/ Sample

SpecSample == InitSample /\ [][NextSample]_vars

(***************************************************************************)
(* get_best_program and get_top_programs under every retention policy.     *)
(***************************************************************************)
\* a max() that keeps the last of the maximal records
get_best_program_last(progs, metric) ==
  LET keys == [i \in 1..Len(progs) |-> ScoreGet(progs[i], metric)]
      best == CHOOSE i \in 1..Len(progs) :
                /\ \A j \in 1..Len(progs) : keys[j] <= keys[i]
                /\ \A j \in (i+1)..Len(progs) : keys[j] < keys[i]
  IN  progs[best]

\* get_best_program(): max() keeps the first of the maximal records
get_best_program(progs, metric) ==
  LET keys == [i \in 1..Len(progs) |-> ScoreGet(progs[i], metric)]
      best == CHOOSE i \in 1..Len(progs) :
                /\ \A j \in 1..Len(progs) : keys[j] <= keys[i]
                /\ \A j \in 1..(i-1) : keys[j] < keys[i]
  IN  progs[best]

\* get_best_programs(limit=5)
BestLimit == 5

get_best_programs(progs, ms) == Take(SortByPrimary(progs, ms), BestLimit)

\* get_top_programs(limit=5)
TopLimit == 5

\* metric or self.metrics[0]; "" stands for None
MetricOrPrimary(metric) == IF metric = "" THEN metrics[1] ELSE metric

get_top_programs(progs, metric, limit) ==
  Take(SortedReverse(progs, [i \in 1..Len(progs) |->
                               ScoreGet(progs[i], metric)]), limit)

\* the metric arguments of a query: None, the primary metric by name, or
\* another metric
QueryMetrics == {"", "accuracy", "performance"}

GetBest ==
  /\ \E metric \in QueryMetrics :
       query' = [op |-> "get_best", metric |-> metric, limit |-> 0,
                 parent |-> <<>>,
                 result |-> IF programs = <<>> THEN <<>>
                            ELSE <<get_best_program(programs,
                                                    MetricOrPrimary(metric))>>]
  /\ UNCHANGED <<dbconfig, programs, disk, fallback_files, with_metadata,
                 marked_inactive, next_id, clock, n_added, to_keep,
                 add_result>>
  /\ UNCHANGED <<evalvars, ctlvars, llmvars>>

GetTop ==
  /\ \E metric \in QueryMetrics : \E limit \in {1, TopLimit} :
       query' = [op |-> "get_top", metric |-> metric, limit |-> limit,
                 parent |-> <<>>,
                 result |-> get_top_programs(programs,
                                             MetricOrPrimary(metric), limit)]
  /\ UNCHANGED <<dbconfig, programs, disk, fallback_files, with_metadata,
                 marked_inactive, next_id, clock, n_added, to_keep,
                 add_result>>
  /\ UNCHANGED <<evalvars, ctlvars, llmvars>>

InitRank ==
  /\ \E cfg \in Configs : \E cap \in 1..MaxCapacity :
       InitDB(cfg, cap, <<>>, <<>>)
  /\ CtlIdle

NextRank == Add \/ GetBest \/ GetTop

SpecRank == InitRank /\ [][NextRank]_vars

(***************************************************************************)
(* Durable storage: both archive implementations, add_program under        *)
(* storage faults, and a fresh archive constructed over the same storage.  *)
(***************************************************************************)
\* the score mappings of the stored records
StoreScores == {[accuracy |-> 1], [accuracy |-> 2]}

\* a seed has no parent, a child names a record of the population
ParentIds == {NoParent} \cup Range(Ids(programs))

\* the metadata argument only changes what the postgresql archive stores
MetadataGiven == IF backend = "postgresql" THEN BOOLEAN ELSE {FALSE}

\* the dict _save_program dumps to <id>.json, or the row it inserts
program_data(p) ==
  [id |-> p.id, code |-> p.code, scores |-> p.scores,
   parent_id |-> p.parent_id, timestamp |-> p.timestamp]

\* the Program that _load_existing_programs builds from a file or a row
LoadedProgram(data) ==
  Program(data.id, data.code, data.scores, data.parent_id, data.timestamp)

\* _load_existing_programs: every record of the store the loader reads, in
\* the order listing gives them (os.listdir, or SELECT without ORDER BY)
_load_existing_programs(listing) ==
  [i \in 1..Len(listing) |-> LoadedProgram(program_data(listing[i]))]

InitStore ==
  /\ archive_mode = "best"
  /\ metrics = <<"accuracy">>
  /\ population_size \in 1..MaxStoreCapacity
  /\ backend \in {"file", "postgresql"}
  /\ disk = <<>>
  /\ programs = <<>>
  /\ fallback_files = <<>>
  /\ with_metadata = {}
  /\ marked_inactive = {}
  /\ next_id = 1
  /\ clock = 0
  /\ n_added = 0
  /\ to_keep = <<>>
  /\ add_result = NoAdd
  /\ query = NoQuery
  /\ EvalIdle
  /\ CtlIdle

AddStore ==
  /\ next_id <= MaxStoreAdds
  /\ \E s \in StoreScores : \E c \in Codes : \E parent_id \in ParentIds :
       \E described \in MetadataGiven : \E fault \in Faults(backend) :
         add_program(c, s, parent_id, 1, described, fault)
  /\ UNCHANGED <<evalvars, ctlvars, llmvars>>

\* the process ends and a new archive object is constructed with the same
\* configuration over the same results directory or database
Reopen ==
  /\ add_result # NoAdd
  /\ \E listing \in Listings(disk) :
       programs' = _load_existing_programs(listing)
  /\ n_added' = 0
  /\ to_keep' = <<>>
  /\ add_result' = NoAdd
  /\ query' = NoQuery
  /\ UNCHANGED <<dbconfig, disk, fallback_files, with_metadata,
                 marked_inactive, next_id, clock>>
  /\ UNCHANGED <<evalvars, ctlvars, llmvars>>

NextStore == AddStore \/ Reopen

SpecStore == InitStore /\ [][NextStore]_vars

(***************************************************************************)
(* PostgreSQLProgramDatabase.get_program_ancestors over a population with  *)
(* parent links, evictions and INSERTs that fell back to a file.           *)
(***************************************************************************)
\* self.programs.get(id) and the row of the programs table with that id;
\* <<>> stands for None / no row
Lookup(records, id) == SelectSeq(records, LAMBDA p : p.id = id)

\* the "while current_id and depth < max_depth" loop over self.programs
RECURSIVE MemoryAncestors(_, _, _)
MemoryAncestors(current_id, ancestors, max_depth) ==
  IF current_id = NoParent \/ Len(ancestors) >= max_depth
     \/ Lookup(programs, current_id) = <<>>
    THEN [ancestors |-> ancestors, current_id |-> current_id]
    ELSE LET parent_id == Lookup(programs, current_id)[1].parent_id
         IN  MemoryAncestors(parent_id,
                             IF parent_id = NoParent THEN ancestors
                             ELSE ancestors \o Lookup(programs, parent_id),
                             max_depth)

\* the rows of WITH RECURSIVE ancestry: the row of id, then the row its
\* parent_id joins, and so on while the join finds a row
RECURSIVE AncestryRows(_)
AncestryRows(id) ==
  IF id = NoParent \/ Lookup(disk, id) = <<>> THEN <<>>
  ELSE Lookup(disk, id) \o AncestryRows(Lookup(disk, id)[1].parent_id)

\* SELECT * FROM ancestry WHERE id != program_id LIMIT max_depth
AncestryQuery(program_id, max_depth) ==
  Take(SelectSeq(AncestryRows(program_id), LAMBDA r : r.id # program_id),
       max_depth)

\* the storage faults a get_program_ancestors call may meet: the SELECT
\* raises, which is logged and leaves the ancestors found in memory
AncestryFaults == {"none", "select"}

\* get_program_ancestors(program_id, max_depth)
get_program_ancestors(program_id, max_depth, fault) ==
  LET walk == MemoryAncestors(program_id, <<>>, max_depth)
      rows == AncestryQuery(program_id, max_depth)
      fresh == SelectSeq(rows, LAMBDA r :
                 \A i \in DOMAIN walk.ancestors : walk.ancestors[i].id # r.id)
  IN  IF Len(walk.ancestors) < max_depth /\ walk.current_id # NoParent
         /\ fault = "none"
        THEN walk.ancestors \o
               [i \in 1..Len(fresh) |-> LoadedProgram(program_data(fresh[i]))]
        ELSE walk.ancestors

InitAncestry ==
  /\ archive_mode = "best"
  /\ metrics = <<"accuracy">>
  /\ population_size \in 1..MaxAncestryCapacity
  /\ backend = "postgresql"
  /\ disk = <<>>
  /\ programs = <<>>
  /\ fallback_files = <<>>
  /\ with_metadata = {}
  /\ marked_inactive = {}
  /\ next_id = 1
  /\ clock = 0
  /\ n_added = 0
  /\ to_keep = <<>>
  /\ add_result = NoAdd
  /\ query = NoQuery
  /\ EvalIdle
  /\ CtlIdle

\* add_program with the INSERT succeeding or falling back to the file
AddAncestry ==
  /\ next_id <= MaxAncestryAdds
  /\ \E s \in StoreScores : \E c \in Codes : \E parent_id \in ParentIds :
       \E fault \in {"none", "record"} :
         add_program(c, s, parent_id, 1, FALSE, fault)
  /\ UNCHANGED <<evalvars, ctlvars, llmvars>>

GetAncestors ==
  /\ \E program_id \in 1..(next_id - 1) : \E max_depth \in 0..MaxDepth :
       \E fault \in AncestryFaults :
         query' = [op |-> "get_program_ancestors", metric |-> "",
                   limit |-> max_depth, parent |-> <<>>,
                   result |-> get_program_ancestors(program_id, max_depth,
                                                    fault),
                   program_id |-> program_id, fault |-> fault]
  /\ UNCHANGED <<dbconfig, programs, disk, fallback_files, with_metadata,
                 marked_inactive, next_id, clock, n_added, to_keep,
                 add_result>>
  /\ UNCHANGED <<evalvars, ctlvars, llmvars>>

NextAncestry == AddAncestry \/ GetAncestors

SpecAncestry == InitAncestry /\ [][NextAncestry]_vars

(***************************************************************************)
(* EvaluationManager.  A Python value is a record of its type and, for a   *)
(* dict, its items.                                                        *)
(***************************************************************************)
Dict(items) == [type |-> "dict", items |-> items]

\* a value that is not a dict: the number 42
NotADict == [type |-> "int", items |-> <<>>]

NoValue == [type |-> "none", items |-> <<>>]

\* the float 1.0 of the sentinels
SentinelValue == 10

\* {"error": 1.0}
ErrorResult == Dict([error |-> SentinelValue])

\* {"timeout": 1.0}
TimeoutResult == Dict([timeout |-> SentinelValue])

\* {"error": 1.0, "error_message": str(e)}, the message kept as a code
ScriptErrorResult == Dict([error |-> SentinelValue, error_message |-> 0])

\* {"error": 1.0, "returncode": proc.returncode}
ReturnCodeResult == Dict([error |-> SentinelValue, returncode |-> 1])

\* {"error": 1.0, "parse_error": 1.0}
ParseErrorResult == Dict([error |-> SentinelValue, parse_error |-> SentinelValue])

\* the programs handed to the evaluator
CodeList == <<"v1", "v2", "v3", "v4">>

\* the metrics the user's evaluate(program_path) computes for a program
ScoreOf(program) ==
  CASE program = "v1" -> [first_test |-> 6, second_test |-> 8, third_test |-> 4]
    [] program = "v2" -> [first_test |-> 7, second_test |-> 6, third_test |-> 5]
    [] program = "v3" -> [second_test |-> 8, third_test |-> 4]
    [] OTHER -> [first_test |-> 9, second_test |-> 9, third_test |-> 9]

\* the cascade_thresholds the manager may be configured with
CascadeConfigs ==
  { <<>>,
    << <<"first_test", 7>>, <<"second_test", 7>>, <<"third_test", 5>> >>,
    << <<"third_test", 5>>, <<"first_test", 7>> >> }

\* a threshold test that also fails a value equal to the threshold
RECURSIVE _apply_cascade_inclusive(_, _)
_apply_cascade_inclusive(thresholds, m) ==
  IF thresholds = <<>> THEN m
  ELSE LET metric == Head(thresholds)[1]
           threshold == Head(thresholds)[2]
       IN  IF metric \in DOMAIN m /\ m[metric] <= threshold
             THEN [k \in {metric} |-> m[metric]]
             ELSE _apply_cascade_inclusive(Tail(thresholds), m)

\* the loop of _apply_cascade over cascade_thresholds.items()
RECURSIVE _apply_cascade(_, _)
_apply_cascade(thresholds, m) ==
  IF thresholds = <<>> THEN m
  ELSE LET metric == Head(thresholds)[1]
           threshold == Head(thresholds)[2]
       IN  IF metric \in DOMAIN m /\ m[metric] < threshold
             THEN [k \in {metric} |-> m[metric]]
             ELSE _apply_cascade(Tail(thresholds), m)

\* bool(metrics)
Truthy(v) == IF v.type = "dict" THEN DOMAIN v.items # {} ELSE v.type # "none"

\* the end of evaluate() once _evaluate_in_* returned v: the cascade step
\* does "metric in metrics", a TypeError on a number
EvaluateEnd(v, cascade) ==
  IF cascade /\ cascade_thresholds # <<>> /\ Truthy(v)
    THEN IF v.type = "dict"
           THEN [pc |-> "returned",
                 result |-> Dict(_apply_cascade(cascade_thresholds, v.items))]
           ELSE [pc |-> "raised", result |-> NoValue]
    ELSE [pc |-> "returned", result |-> v]

\* what the scoring entry point may do when it ends
Outcomes ==
  IF use_subprocess THEN {"dict", "nondict", "raise", "exit", "garbage"}
  ELSE {"dict", "nondict", "raise", "raise_timeout"}

\* the value _evaluate_in_process returns
InProcessMetrics(program, outcome) ==
  CASE outcome = "dict" -> Dict(ScoreOf(program))
    [] outcome = "nondict" -> ErrorResult
    [] outcome = "raise_timeout" -> TimeoutResult
    [] OTHER -> ErrorResult

\* the value _evaluate_in_subprocess returns when the process ends in time
SubprocessMetrics(program, outcome) ==
  CASE outcome = "dict" -> Dict(ScoreOf(program))
    [] outcome = "nondict" -> NotADict
    [] outcome = "raise" -> ScriptErrorResult
    [] outcome = "exit" -> ReturnCodeResult
    [] OTHER -> ParseErrorResult

\* a program text that utf-8 cannot encode (a lone surrogate):
\* temp_file.write(program) raises UnicodeEncodeError
Unencodable == "v\\ud800"

NewCall(program, cascade, in_batch, pc) ==
  [program |-> program, cascade |-> cascade, in_batch |-> in_batch, pc |-> pc,
   timed_out |-> FALSE, outcome |-> "none", metrics |-> NoValue,
   result |-> NoValue, original_dir |-> ""]

Running == {i \in DOMAIN calls : calls[i].pc = "running"}

\* evaluate() up to its first suspension: run_in_executor submits a work
\* item, create_subprocess_exec starts a process
StartedPc == IF use_subprocess THEN "running" ELSE "queued"

\* evaluate() from its first line to its first suspension.  The program
\* file is created and written before the try block, so a failing write
\* leaves evaluate() at once; in a subprocess the runner script is written
\* and the process started; in-process run_in_executor submits a work item,
\* which a shut-down executor refuses with a RuntimeError that
\* _evaluate_in_process turns into {"error": 1.0}
StartedCall(program, cascade, in_batch) ==
  IF program = Unencodable
    THEN [NewCall(program, cascade, in_batch, "raised")
            EXCEPT !.outcome = "write_error"]
  ELSE IF ~use_subprocess /\ shut_down
    THEN LET end == EvaluateEnd(ErrorResult, cascade)
         IN  [NewCall(program, cascade, in_batch, end.pc)
                EXCEPT !.outcome = "rejected", !.metrics = ErrorResult,
                       !.result = end.result]
  ELSE NewCall(program, cascade, in_batch, StartedPc)

\* the temporary files of call i that exist once it has started
StartedFiles(i, call) ==
  IF call.outcome = "write_error" THEN {<<i, "program">>}
  ELSE IF call.pc = "running" THEN {<<i, "program">>, <<i, "script">>}
  ELSE IF call.pc = "queued" THEN {<<i, "program">>}
  ELSE {}

\* the files the two finally blocks unlink when call i ends (os.unlink is
\* taken to succeed)
FilesOf(i) == {<<i, "program">>, <<i, "script">>}

\* await evaluate(program, cascade), called directly
Evaluate(program, cascade) ==
  /\ batch.status = "none"
  /\ Len(calls) < MaxCalls
  /\ LET i == Len(calls) + 1
         call == StartedCall(program, cascade, FALSE)
     IN  /\ calls' = Append(calls, call)
         /\ work_queue' = IF call.pc = "queued" THEN Append(work_queue, i)
                          ELSE work_queue
         /\ tmp_files' = tmp_files \cup StartedFiles(i, call)
  /\ UNCHANGED <<use_subprocess, max_workers, cascade_thresholds,
                 finish_order, batch, cwd, shut_down>>
  /\ UNCHANGED <<dbvars, ctlvars, llmvars>>

\* a thread of the ThreadPoolExecutor takes the oldest work item and enters
\* _run_evaluate_with_timeout: original_dir = os.getcwd(), then
\* os.chdir(self.working_dir)
WorkerPickup ==
  /\ work_queue # <<>>
  /\ Cardinality(Running) < max_workers
  /\ calls' = [calls EXCEPT ![Head(work_queue)].pc = "running",
                            ![Head(work_queue)].original_dir = cwd]
  /\ cwd' = WorkingDir
  /\ work_queue' = Tail(work_queue)
  /\ UNCHANGED <<use_subprocess, max_workers, cascade_thresholds,
                 finish_order, batch, tmp_files, shut_down>>
  /\ UNCHANGED <<dbvars, ctlvars, llmvars>>

\* the configured timeout passes while the scoring entry point still runs.
\* In a subprocess wait_for raises TimeoutError, the process is killed and
\* {"timeout": 1.0} is returned; in-process nothing watches the clock.
TimeoutElapses(i) ==
  /\ calls[i].pc = "running"
  /\ ~calls[i].timed_out
  /\ IF use_subprocess
       THEN LET end == EvaluateEnd(TimeoutResult, calls[i].cascade)
            IN  /\ calls' = [calls EXCEPT ![i].timed_out = TRUE,
                                          ![i].outcome = "timeout",
                                          ![i].metrics = TimeoutResult,
                                          ![i].pc = end.pc,
                                          ![i].result = end.result]
                /\ finish_order' = IF calls[i].in_batch
                                      THEN Append(finish_order, i)
                                      ELSE finish_order
                /\ tmp_files' = tmp_files \ FilesOf(i)
       ELSE /\ calls' = [calls EXCEPT ![i].timed_out = TRUE]
            /\ finish_order' = finish_order
            /\ tmp_files' = tmp_files
  /\ UNCHANGED <<use_subprocess, max_workers, cascade_thresholds, work_queue,
                 batch, cwd, shut_down>>
  /\ UNCHANGED <<dbvars, ctlvars, llmvars>>

\* the scoring entry point ends and evaluate() runs to its end: in-process
\* the finally block of _run_evaluate_with_timeout does
\* os.chdir(original_dir); the finally blocks unlink the temporary files
Finish(i, outcome) ==
  /\ calls[i].pc = "running"
  /\ LET m == IF use_subprocess
                THEN SubprocessMetrics(calls[i].program, outcome)
                ELSE InProcessMetrics(calls[i].program, outcome)
         end == EvaluateEnd(m, calls[i].cascade)
     IN  calls' = [calls EXCEPT ![i].outcome = outcome,
                                ![i].metrics = m,
                                ![i].pc = end.pc,
                                ![i].result = end.result]
  /\ finish_order' = IF calls[i].in_batch THEN Append(finish_order, i)
                     ELSE finish_order
  /\ cwd' = IF use_subprocess THEN cwd ELSE calls[i].original_dir
  /\ tmp_files' = tmp_files \ FilesOf(i)
  /\ UNCHANGED <<use_subprocess, max_workers, cascade_thresholds, work_queue,
                 batch, shut_down>>
  /\ UNCHANGED <<dbvars, ctlvars, llmvars>>

\* cleanup(): executor.shutdown(wait=True) returns once the executor's
\* queued and running work items have ended
Cleanup ==
  /\ ~shut_down
  /\ work_queue = <<>>
  /\ use_subprocess \/ Running = {}
  /\ shut_down' = TRUE
  /\ UNCHANGED <<use_subprocess, max_workers, cascade_thresholds, calls,
                 work_queue, finish_order, batch, tmp_files, cwd>>
  /\ UNCHANGED <<dbvars, ctlvars, llmvars>>

(***************************************************************************)
(* batch_evaluate: one task per program behind an asyncio.Semaphore, the   *)
(* results collected by asyncio.gather.                                    *)
(***************************************************************************)
\* a semaphore that is always sized by max_workers
SemaphoreSizeWorkers(max_concurrent) == max_workers

\* max_concurrent or self.max_workers (None and 0 are falsy)
SemaphoreSize(max_concurrent) ==
  IF max_concurrent = 0 THEN max_workers ELSE max_concurrent

\* the tasks inside "async with semaphore"
Holding == {i \in DOMAIN calls : calls[i].pc \in {"queued", "running"}}

Waiting == {i \in DOMAIN calls : calls[i].pc = "semaphore"}

Ended == {i \in DOMAIN calls : calls[i].pc \in {"returned", "raised"}}

\* a gather that lists results as the tasks complete
GatherInCompletionOrder(cs, order) ==
  [k \in 1..Len(order) |-> cs[order[k]].result]

\* asyncio.gather(*tasks): the results in the order of the awaitables
GatherResults(cs, order) == [i \in 1..Len(cs) |-> cs[i].result]

BatchEvaluate(n, max_concurrent) ==
  /\ batch.status = "none"
  /\ calls = <<>>
  /\ batch' = [status |-> "running", programs |-> SubSeq(CodeList, 1, n),
               max_concurrent |-> max_concurrent, results |-> <<>>]
  /\ calls' = [i \in 1..n |-> NewCall(CodeList[i], TRUE, TRUE, "semaphore")]
  /\ UNCHANGED <<use_subprocess, max_workers, cascade_thresholds, work_queue,
                 finish_order, tmp_files, cwd, shut_down>>
  /\ UNCHANGED <<dbvars, ctlvars, llmvars>>

\* the longest-waiting task enters "async with semaphore" and starts
\* self.evaluate(program)
Acquire ==
  /\ Waiting # {}
  /\ Cardinality(Holding) < SemaphoreSize(batch.max_concurrent)
  /\ LET i == CHOOSE w \in Waiting : \A v \in Waiting : w <= v
         call == StartedCall(calls[i].program, calls[i].cascade, TRUE)
     IN  /\ calls' = [calls EXCEPT ![i] = call]
         /\ work_queue' = IF call.pc = "queued" THEN Append(work_queue, i)
                          ELSE work_queue
         /\ tmp_files' = tmp_files \cup StartedFiles(i, call)
         /\ finish_order' = IF call.pc \in {"returned", "raised"}
                               THEN Append(finish_order, i)
                             ELSE finish_order
  /\ UNCHANGED <<use_subprocess, max_workers, cascade_thresholds, batch, cwd,
                 shut_down>>
  /\ UNCHANGED <<dbvars, ctlvars, llmvars>>

\* every task returned: gather returns the list
GatherReturns ==
  /\ batch.status = "running"
  /\ \A i \in DOMAIN calls : calls[i].pc = "returned"
  /\ batch' = [batch EXCEPT !.status = "returned",
                            !.results = GatherResults(calls, finish_order)]
  /\ UNCHANGED <<use_subprocess, max_workers, cascade_thresholds, calls,
                 work_queue, finish_order, tmp_files, cwd, shut_down>>
  /\ UNCHANGED <<dbvars, ctlvars, llmvars>>

\* a task raised: gather (return_exceptions=False) raises to the caller of
\* batch_evaluate, the other tasks keep running
GatherRaises ==
  /\ batch.status = "running"
  /\ \E i \in DOMAIN calls : calls[i].pc = "raised"
  /\ batch' = [batch EXCEPT !.status = "raised"]
  /\ UNCHANGED <<use_subprocess, max_workers, cascade_thresholds, calls,
                 work_queue, finish_order, tmp_files, cwd, shut_down>>
  /\ UNCHANGED <<dbvars, ctlvars, llmvars>>

InitEvalConfig(sub, workers, thresholds) ==
  /\ use_subprocess = sub
  /\ max_workers = workers
  /\ cascade_thresholds = thresholds
  /\ calls = <<>>
  /\ work_queue = <<>>
  /\ finish_order = <<>>
  /\ batch = NoBatch
  /\ tmp_files = {}
  /\ cwd = StartDir
  /\ shut_down = FALSE

InitEval ==
  /\ \E sub \in BOOLEAN : \E workers \in 1..MaxWorkers :
       \E thresholds \in CascadeConfigs :
         InitEvalConfig(sub, workers, thresholds)
  /\ archive_mode = "best" /\ metrics = <<"accuracy">> /\ population_size = 1
  /\ backend = "file"
  /\ disk = <<>> /\ programs = <<>> /\ next_id = 1 /\ clock = 0
  /\ fallback_files = <<>> /\ with_metadata = {} /\ marked_inactive = {}
  /\ n_added = 0 /\ to_keep = <<>> /\ add_result = NoAdd /\ query = NoQuery
  /\ CtlIdle

\* the programs of direct evaluate() calls
EvalPrograms == Range(CodeList) \cup {Unencodable}

EvaluateCall == \E program \in EvalPrograms : \E cascade \in BOOLEAN :
                  Evaluate(program, cascade)

TimeoutStep == \E i \in DOMAIN calls : TimeoutElapses(i)

FinishStep == \E i \in DOMAIN calls : \E outcome \in Outcomes :
                Finish(i, outcome)

NextEval == EvaluateCall \/ WorkerPickup \/ TimeoutStep \/ FinishStep
              \/ Cleanup

SpecEval == InitEval /\ [][NextEval]_vars

BatchCall == \E n \in 0..MaxBatch : \E mc \in 0..MaxConcurrent :
               BatchEvaluate(n, mc)

NextBatch == BatchCall \/ Acquire \/ WorkerPickup \/ TimeoutStep
               \/ FinishStep \/ GatherReturns \/ GatherRaises

\* batches run under the default configuration and under the three-stage
\* cascade
InitBatch ==
  /\ InitEval
  /\ Len(cascade_thresholds) # 2

SpecBatch == InitBatch /\ [][NextBatch]_vars

\* the event loop runs every task that is ready, the executor's threads take
\* queued work items, and every scoring call ends
SpecBatchFair ==
  /\ SpecBatch
  /\ WF_vars(Acquire)
  /\ WF_vars(WorkerPickup)
  /\ WF_vars(FinishStep)

(***************************************************************************)
(* LLMInterface.generate and the Controller.                               *)
(***************************************************************************)
\* fallback_models
FallbackModels == <<"fallback-model">>

\* generate() over the outcomes of its _call_llm calls, ok[k] for the k-th
\* call it would make: the primary model retry_attempts times, then each
\* fallback model once
GenerateOutcome(ok) ==
  LET primary == \E k \in 1..RetryAttempts : ok[k]
      fallback == \E k \in 1..Len(FallbackModels) : ok[RetryAttempts + k]
  IN  [returned |-> primary \/ fallback,
       failed_calls |-> IF primary THEN 0 ELSE 1]

LLMCallOutcomes == [1..(RetryAttempts + Len(FallbackModels)) -> BOOLEAN]

\* the model of LLMInterface
PrimaryModel == "primary-model"

\* the fallback_models an LLMInterface may be configured with
FallbackConfigs ==
  {SubSeq(<<"fallback-1", "fallback-2", "fallback-3", "fallback-4">>, 1, n) :
     n \in 0..MaxFallbacks}

\* generate() after the loop over the primary attempts ended without a
\* return: failed_calls += 1, then the first fallback model, or the
\* RuntimeError when there is none
AfterPrimary ==
  /\ failed_calls' = failed_calls + 1
  /\ attempt' = 1
  /\ gen_pc' = IF fallback_models = <<>> THEN "raised" ELSE "fallback"

\* await generate(prompt), up to its first _call_llm
GenerateCall ==
  /\ gen_pc \in {"idle", "returned", "raised"}
  /\ call_count < MaxGenerateCalls
  /\ call_count' = call_count + 1
  /\ llm_calls' = <<>>
  /\ IF retry_attempts > 0
       THEN gen_pc' = "primary" /\ attempt' = 0 /\ failed_calls' = failed_calls
       ELSE AfterPrimary
  /\ UNCHANGED <<retry_attempts, fallback_models>>
  /\ UNCHANGED <<ctl_pc, current_iteration, stopped, ctlconfig,
                 parent_program, eval_scores, run_result, failure, ops,
                 disk_at_start, elapsed_hours, child_program, metavars>>
  /\ UNCHANGED <<dbvars, evalvars>>

\* a loop over the primary attempts that gives up after the first failure
PrimaryCallNoRetry ==
  /\ gen_pc = "primary"
  /\ \E ok \in BOOLEAN :
       /\ llm_calls' = Append(llm_calls, [model |-> PrimaryModel, ok |-> ok])
       /\ IF ok
            THEN /\ gen_pc' = "returned"
                 /\ UNCHANGED <<attempt, failed_calls>>
            ELSE AfterPrimary
  /\ UNCHANGED <<retry_attempts, fallback_models, call_count>>
  /\ UNCHANGED <<ctl_pc, current_iteration, stopped, ctlconfig,
                 parent_program, eval_scores, run_result, failure, ops,
                 disk_at_start, elapsed_hours, child_program, metavars>>
  /\ UNCHANGED <<dbvars, evalvars>>

\* a _call_llm(self.model, prompt) of the loop over range(retry_attempts)
\* ends: its response is returned, or its exception is logged and, after
\* the delay, the next attempt is made
PrimaryCall ==
  /\ gen_pc = "primary"
  /\ \E ok \in BOOLEAN :
       /\ llm_calls' = Append(llm_calls, [model |-> PrimaryModel, ok |-> ok])
       /\ IF ok
            THEN /\ gen_pc' = "returned"
                 /\ UNCHANGED <<attempt, failed_calls>>
            ELSE IF attempt + 1 < retry_attempts
              THEN /\ attempt' = attempt + 1
                   /\ UNCHANGED <<gen_pc, failed_calls>>
              ELSE AfterPrimary
  /\ UNCHANGED <<retry_attempts, fallback_models, call_count>>
  /\ UNCHANGED <<ctl_pc, current_iteration, stopped, ctlconfig,
                 parent_program, eval_scores, run_result, failure, ops,
                 disk_at_start, elapsed_hours, child_program, metavars>>
  /\ UNCHANGED <<dbvars, evalvars>>

\* a loop over fallback_models that counts every failed fallback as a failed
\* call
FallbackCallCountsFailures ==
  /\ gen_pc = "fallback"
  /\ \E ok \in BOOLEAN :
       /\ llm_calls' = Append(llm_calls, [model |-> fallback_models[attempt],
                                          ok |-> ok])
       /\ failed_calls' = IF ok THEN failed_calls ELSE failed_calls + 1
       /\ IF ok
            THEN gen_pc' = "returned" /\ attempt' = attempt
            ELSE IF attempt < Len(fallback_models)
              THEN gen_pc' = gen_pc /\ attempt' = attempt + 1
              ELSE gen_pc' = "raised" /\ attempt' = attempt
  /\ UNCHANGED <<retry_attempts, fallback_models, call_count>>
  /\ UNCHANGED <<ctl_pc, current_iteration, stopped, ctlconfig,
                 parent_program, eval_scores, run_result, failure, ops,
                 disk_at_start, elapsed_hours, child_program, metavars>>
  /\ UNCHANGED <<dbvars, evalvars>>

\* a _call_llm(fallback_model, prompt) of the loop over fallback_models
\* ends: its response is returned, or its exception is logged and the next
\* fallback model is tried; after the last one generate raises RuntimeError
FallbackCall ==
  /\ gen_pc = "fallback"
  /\ \E ok \in BOOLEAN :
       /\ llm_calls' = Append(llm_calls, [model |-> fallback_models[attempt],
                                          ok |-> ok])
       /\ IF ok
            THEN gen_pc' = "returned" /\ attempt' = attempt
            ELSE IF attempt < Len(fallback_models)
              THEN gen_pc' = gen_pc /\ attempt' = attempt + 1
              ELSE gen_pc' = "raised" /\ attempt' = attempt
  /\ UNCHANGED <<retry_attempts, fallback_models, call_count, failed_calls>>
  /\ UNCHANGED <<ctl_pc, current_iteration, stopped, ctlconfig,
                 parent_program, eval_scores, run_result, failure, ops,
                 disk_at_start, elapsed_hours, child_program, metavars>>
  /\ UNCHANGED <<dbvars, evalvars>>

InitGenerate ==
  /\ retry_attempts \in 0..MaxRetryAttempts
  /\ fallback_models \in FallbackConfigs
  /\ gen_pc = "idle"
  /\ attempt = 0
  /\ llm_calls = <<>>
  /\ ctl_pc = "idle"
  /\ current_iteration = 0
  /\ stopped = FALSE
  /\ max_iterations = 0
  /\ budget = <<>>
  /\ target_score = <<>>
  /\ call_count = 0
  /\ failed_calls = 0
  /\ parent_program = <<>>
  /\ eval_scores = <<>>
  /\ run_result = <<>>
  /\ failure = "none"
  /\ ops = <<>>
  /\ disk_at_start = 0
  /\ elapsed_hours = 0
  /\ child_program = ""
  /\ meta_prompter = FALSE
  /\ templates = DefaultTemplates
  /\ evolve_calls = <<>>
  /\ InitDB(<<"best", <<"accuracy">>>>, 1, <<>>, <<>>)

NextGenerate == GenerateCall \/ PrimaryCall \/ FallbackCall

SpecGenerate == InitGenerate /\ [][NextGenerate]_vars

\* get_resource_usage(resource)
get_resource_usage(resource) ==
  IF resource = "llm_calls" THEN call_count ELSE 0

\* best_program.scores.get(metric, 0)
ScoreGetZero(p, metric) ==
  IF metric \in DOMAIN p.scores THEN p.scores[metric] ELSE 0

\* the loop of should_stop over target_score.items(), in dict order: a metric
\* that counts as reached is logged with best_program.scores[metric], which
\* raises KeyError when the record lacks the metric; the first metric below
\* its target returns False
RECURSIVE TargetsReached(_, _)
TargetsReached(targets, best_program) ==
  IF targets = <<>> THEN "True"
  ELSE LET metric == Head(targets)[1]
           target == Head(targets)[2]
       IN  IF ScoreGetZero(best_program, metric) >= target
             THEN IF metric \in DOMAIN best_program.scores
                    THEN TargetsReached(Tail(targets), best_program)
                    ELSE "KeyError"
             ELSE "False"

\* a limit test that lets one more iteration start
should_stop_late ==
  IF stopped THEN "True"
  ELSE IF current_iteration > max_iterations THEN "True"
  ELSE IF \E resource \in DOMAIN budget :
            get_resource_usage(resource) >= budget[resource] THEN "True"
  ELSE IF programs = <<>> THEN "False"
  ELSE LET reached == TargetsReached(
                        target_score, get_best_program(programs, metrics[1]))
       IN  IF reached = "True"
             THEN (IF Len(target_score) > 0 THEN "True" ELSE "False")
             ELSE reached

\* should_stop(): "True", "False", or the exception that leaves it
should_stop ==
  IF stopped THEN "True"
  ELSE IF current_iteration >= max_iterations THEN "True"
  ELSE IF \E resource \in DOMAIN budget :
            get_resource_usage(resource) >= budget[resource] THEN "True"
  ELSE IF programs = <<>> THEN "False"
  ELSE LET reached == TargetsReached(
                        target_score, get_best_program(programs, metrics[1]))
       IN  IF reached = "True"
             THEN (IF Len(target_score) > 0 THEN "True" ELSE "False")
             ELSE reached

\* run() is called
RunStart ==
  /\ ctl_pc = "idle"
  /\ ctl_pc' = "loop"
  /\ UNCHANGED <<current_iteration, stopped, ctlconfig, call_count,
                 failed_calls, parent_program, eval_scores, run_result,
                 failure, ops, disk_at_start, elapsed_hours>>
  /\ UNCHANGED <<child_program, metavars>>
  /\ UNCHANGED <<dbvars, evalvars, llmvars>>

\* the head of the while loop: should_stop(), then the iteration counter,
\* sample_programs() and construct_prompt()
LoopCheck ==
  /\ ctl_pc = "loop"
  /\ IF should_stop = "KeyError"
       THEN /\ ctl_pc' = "raised"
            /\ failure' = "should_stop"
            /\ UNCHANGED <<current_iteration, parent_program, run_result,
                           ops, disk_at_start>>
     ELSE IF should_stop = "True"
       THEN /\ ctl_pc' = "returned"
            /\ run_result' = get_best_programs(programs, metrics)
            /\ UNCHANGED <<current_iteration, parent_program, failure, ops,
                           disk_at_start>>
     ELSE /\ current_iteration' = current_iteration + 1
          /\ run_result' = run_result
          /\ disk_at_start' = Len(disk)
          /\ IF programs = <<>>
               THEN /\ ctl_pc' = "raised"
                    /\ failure' = "sample_programs"
                    /\ parent_program' = <<>>
                    /\ ops' = Append(ops, "sample")
               ELSE /\ ctl_pc' = "generate"
                    /\ failure' = failure
                    /\ ops' = ops \o <<"sample", "prompt">>
                    /\ \E p \in SampleParents(programs, metrics) :
                         parent_program' = <<p>>
  /\ UNCHANGED <<stopped, ctlconfig, call_count, failed_calls, eval_scores,
                 elapsed_hours>>
  /\ UNCHANGED <<child_program, metavars>>
  /\ UNCHANGED <<dbvars, evalvars, llmvars>>

\* await self.llm_interface.generate(prompt), outside the try block
Generate ==
  /\ ctl_pc = "generate"
  /\ \E ok \in LLMCallOutcomes :
       LET out == GenerateOutcome(ok)
       IN  /\ call_count' = call_count + 1
           /\ failed_calls' = failed_calls + out.failed_calls
           /\ IF out.returned
                THEN ctl_pc' = "patch" /\ failure' = failure
                ELSE ctl_pc' = "raised" /\ failure' = "generate"
  /\ ops' = Append(ops, "generate")
  /\ UNCHANGED <<current_iteration, stopped, ctlconfig, parent_program,
                 eval_scores, run_result, disk_at_start, elapsed_hours>>
  /\ UNCHANGED <<child_program, metavars>>
  /\ UNCHANGED <<dbvars, evalvars, llmvars>>

\* the child program apply_changes builds from the parent and the response
PatchedCode == "def v(): return 2"

\* an except block that logs and then falls through to the evaluation
PatchFallsThrough ==
  /\ ctl_pc = "patch"
  /\ \E raised \in BOOLEAN :
       /\ ctl_pc' = "evaluate"
       /\ child_program' = IF raised THEN child_program ELSE PatchedCode
       /\ ops' = IF raised THEN ops \o <<"apply_changes", "except">>
                 ELSE Append(ops, "apply_changes")
  /\ UNCHANGED <<current_iteration, stopped, ctlconfig, call_count,
                 failed_calls, parent_program, eval_scores, run_result,
                 failure, disk_at_start, elapsed_hours>>
  /\ UNCHANGED metavars
  /\ UNCHANGED <<dbvars, evalvars, llmvars>>

\* code_patcher.apply_changes(...) inside the try block: an exception is
\* caught by the except block, logged, and the loop goes on
Patch ==
  /\ ctl_pc = "patch"
  /\ \E raised \in BOOLEAN :
       /\ ctl_pc' = IF raised THEN "loop" ELSE "evaluate"
       /\ child_program' = IF raised THEN child_program ELSE PatchedCode
       /\ ops' = IF raised THEN ops \o <<"apply_changes", "except">>
                 ELSE Append(ops, "apply_changes")
  /\ UNCHANGED <<current_iteration, stopped, ctlconfig, call_count,
                 failed_calls, parent_program, eval_scores, run_result,
                 failure, disk_at_start, elapsed_hours>>
  /\ UNCHANGED metavars
  /\ UNCHANGED <<dbvars, evalvars, llmvars>>

\* the score mappings evaluate may hand the controller: one metric reached
\* and one not, both reached, a mapping without the second metric, and the
\* failure sentinel
ControllerScores ==
  {[accuracy |-> 2, performance |-> -2], [accuracy |-> 2, performance |-> -1],
   [accuracy |-> 2], [error |-> SentinelValue]}

\* await self.evaluator.evaluate(child_program) inside the try block: a
\* mapping, or an exception that the except block catches
EvaluateChild ==
  /\ ctl_pc = "evaluate"
  /\ \/ /\ \E m \in ControllerScores : eval_scores' = m
        /\ ctl_pc' = "add"
        /\ ops' = Append(ops, "evaluate")
     \/ /\ eval_scores' = eval_scores
        /\ ctl_pc' = "loop"
        /\ ops' = ops \o <<"evaluate", "except">>
  /\ UNCHANGED <<current_iteration, stopped, ctlconfig, call_count,
                 failed_calls, parent_program, run_result, failure,
                 disk_at_start, elapsed_hours>>
  /\ UNCHANGED <<child_program, metavars>>
  /\ UNCHANGED <<dbvars, evalvars, llmvars>>

\* the iterations after which run() evolves the meta-prompts
MetaInterval == 10

\* self.meta_prompter and self.current_iteration % 10 == 0
EvolutionDue == meta_prompter /\ current_iteration % MetaInterval = 0

\* an add_program call that names the child itself as its parent
AddChildOwnParent ==
  /\ ctl_pc = "add"
  /\ add_program(child_program, eval_scores, next_id, 1, FALSE, "none")
  /\ ops' = Append(ops, "add_program")
  /\ ctl_pc' = IF EvolutionDue THEN "evolve" ELSE "loop"
  /\ UNCHANGED <<current_iteration, stopped, ctlconfig, call_count,
                 failed_calls, parent_program, eval_scores, run_result,
                 failure, disk_at_start, elapsed_hours>>
  /\ UNCHANGED <<child_program, metavars>>
  /\ UNCHANGED <<evalvars, llmvars>>

\* an add_program call that stores the parent's code instead of the child's
AddChildParentCode ==
  /\ ctl_pc = "add"
  /\ add_program(parent_program[1].code, eval_scores, parent_program[1].id,
                 1, FALSE, "none")
  /\ ops' = Append(ops, "add_program")
  /\ ctl_pc' = IF EvolutionDue THEN "evolve" ELSE "loop"
  /\ UNCHANGED <<current_iteration, stopped, ctlconfig, call_count,
                 failed_calls, parent_program, eval_scores, run_result,
                 failure, disk_at_start, elapsed_hours>>
  /\ UNCHANGED <<child_program, metavars>>
  /\ UNCHANGED <<evalvars, llmvars>>

\* self.program_db.add_program(program, scores, parent_id=parent_program.id)
\* inside the try block, on storage that does not fail; the awaits of an
\* iteration take longer than the resolution of the clock
AddChild ==
  /\ ctl_pc = "add"
  /\ add_program(child_program, eval_scores, parent_program[1].id, 1, FALSE,
                 "none")
  /\ ops' = Append(ops, "add_program")
  /\ ctl_pc' = IF EvolutionDue THEN "evolve" ELSE "loop"
  /\ UNCHANGED <<current_iteration, stopped, ctlconfig, call_count,
                 failed_calls, parent_program, eval_scores, run_result,
                 failure, disk_at_start, elapsed_hours>>
  /\ UNCHANGED <<child_program, metavars>>
  /\ UNCHANGED <<evalvars, llmvars>>

\* self.templates.update(new_templates)
DictUpdate(old, new) ==
  [name \in DOMAIN old \cup DOMAIN new |->
     IF name \in DOMAIN new THEN new[name] ELSE old[name]]

\* what evolve_prompts may return: no template, a new version of a
\* template under a new name, or a new text for an existing name
EvolvedTemplates ==
  {<<>>, [default_v1 |-> "default_template"], [default |-> "evolved_template"]}

\* await self.evolve_meta_prompts(), inside the try block after
\* add_program: get_top_programs(limit=5), evolve_prompts(current_templates,
\* successful_programs), update_templates; an exception of the collaborator
\* is caught by the except block
EvolveMeta ==
  /\ ctl_pc = "evolve"
  /\ evolve_calls' =
       Append(evolve_calls,
              [iteration |-> current_iteration,
               current_templates |-> templates,
               successful_programs |->
                 get_top_programs(programs, metrics[1], TopLimit)])
  /\ \/ \E new_templates \in EvolvedTemplates :
          /\ templates' = DictUpdate(templates, new_templates)
          /\ ops' = ops \o <<"evolve_prompts", "update_templates">>
     \/ /\ templates' = templates
        /\ ops' = ops \o <<"evolve_prompts", "except">>
  /\ ctl_pc' = "loop"
  /\ UNCHANGED <<current_iteration, stopped, ctlconfig, call_count,
                 failed_calls, parent_program, eval_scores, run_result,
                 failure, disk_at_start, elapsed_hours, child_program>>
  /\ UNCHANGED <<dbvars, evalvars, llmvars>>

\* stop(), called from outside the loop
Stop ==
  /\ ctl_pc \notin {"returned", "raised"}
  /\ ~stopped
  /\ stopped' = TRUE
  /\ ops' = Append(ops, "stop")
  /\ UNCHANGED <<ctl_pc, current_iteration, ctlconfig, call_count,
                 failed_calls, parent_program, eval_scores, run_result,
                 failure, disk_at_start, elapsed_hours>>
  /\ UNCHANGED <<child_program, metavars>>
  /\ UNCHANGED <<dbvars, evalvars, llmvars>>

\* an hour goes by while run() awaits the generator or the evaluator
HourPasses ==
  /\ ctl_pc \in {"generate", "evaluate"}
  /\ "time_hours" \in DOMAIN budget
  /\ elapsed_hours < MaxBudget
  /\ elapsed_hours' = elapsed_hours + 1
  /\ UNCHANGED <<ctl_pc, current_iteration, stopped, ctlconfig, call_count,
                 failed_calls, parent_program, eval_scores, run_result,
                 failure, ops, disk_at_start>>
  /\ UNCHANGED <<child_program, metavars>>
  /\ UNCHANGED <<dbvars, evalvars, llmvars>>

\* budget: one of the resources the constructor documents
Budgets == {[llm_calls |-> MaxBudget], [time_hours |-> MaxBudget]}

NoBudget == <<>>

\* target_score in dict order: accuracy 0.2 and a negated cost -0.1
TargetScores == {<< <<"accuracy", 2>>, <<"performance", -1>> >>}

NoTarget == <<>>

\* max_iterations, budget and target_score of a run: the iteration limit
\* alone, or the largest limit with a budget or with a target
RunConfigs ==
  {<<k, NoBudget, NoTarget>> : k \in 0..MaxIterations}
    \cup {<<MaxIterations, b, NoTarget>> : b \in Budgets}
    \cup {<<MaxIterations, NoBudget, t>> : t \in TargetScores}

\* the initial program main.py evaluated and added: none if that failed,
\* one whose evaluation failed, or one short of the target
SeedScores == {[error |-> SentinelValue], [accuracy |-> 2, performance |-> -2]}

SeedRuns ==
  {<<>>} \cup {<<Program(1, c, m, NoParent, 0)>> :
                 c \in Codes, m \in SeedScores}

InitController ==
  /\ \E cfg \in Configs : \E cap \in 1..MaxCtlCapacity :
       \E d \in SeedRuns : InitDB(cfg, cap, d, d)
  /\ ctl_pc = "idle"
  /\ current_iteration = 0
  /\ stopped = FALSE
  /\ \E cfg \in RunConfigs :
       /\ max_iterations = cfg[1]
       /\ budget = cfg[2]
       /\ target_score = cfg[3]
  /\ call_count = 0
  /\ failed_calls = 0
  /\ parent_program = <<>>
  /\ eval_scores = <<>>
  /\ run_result = <<>>
  /\ failure = "none"
  /\ ops = <<>>
  /\ disk_at_start = 0
  /\ elapsed_hours = 0
  /\ child_program = ""
  /\ meta_prompter = FALSE
  /\ templates = DefaultTemplates
  /\ evolve_calls = <<>>
  /\ LLMIdle

NextController == RunStart \/ LoopCheck \/ Generate \/ Patch
                    \/ EvaluateChild \/ AddChild \/ Stop \/ HourPasses

SpecController == InitController /\ [][NextController]_vars

(***************************************************************************)
(* Runs that reach the meta-prompt evolution: a controller, with or        *)
(* without a MetaPrompter, whose iteration counter stands a few iterations *)
(* short of the interval when run() is called, which is how                *)
(* test_meta_prompter_evolution sets it up (current_iteration = 9).        *)
(***************************************************************************)
InitMeta ==
  /\ \E cfg \in Configs : \E cap \in 1..MaxCtlCapacity :
       \E d \in SeedRuns : InitDB(cfg, cap, d, d)
  /\ ctl_pc = "idle"
  /\ current_iteration \in (MetaInterval - MaxMetaIterations)..(MetaInterval - 1)
  /\ stopped = FALSE
  /\ max_iterations = MetaInterval
  /\ budget = NoBudget
  /\ target_score = NoTarget
  /\ meta_prompter \in BOOLEAN
  /\ call_count = 0
  /\ failed_calls = 0
  /\ parent_program = <<>>
  /\ eval_scores = <<>>
  /\ run_result = <<>>
  /\ failure = "none"
  /\ ops = <<>>
  /\ disk_at_start = 0
  /\ elapsed_hours = 0
  /\ child_program = ""
  /\ templates = DefaultTemplates
  /\ evolve_calls = <<>>
  /\ LLMIdle

NextMeta == RunStart \/ LoopCheck \/ Generate \/ Patch \/ EvaluateChild
              \/ AddChild \/ EvolveMeta \/ Stop

SpecMeta == InitMeta /\ [][NextMeta]_vars

(***************************************************************************)
(* Properties of the population archive.                                   *)
(***************************************************************************)
Primary(p) == ScoreGet(p, metrics[1])

Evicted == {q \in Range(disk) : q \notin Range(programs)}

\* C1: whenever an add_program call has returned, under every policy and
\* capacity, the in-memory population holds at most population_size records.
PopulationWithinCapacity ==
  n_added > 0 => Len(programs) <= population_size

\* an add_program has returned that had to evict from an over-full population
EvictionHappened ==
  /\ n_added > 0
  /\ to_keep # <<>>
  /\ Len(programs) = population_size
  /\ Evicted # {}

\* C2: under the best policy, after N adds the population is the min(C, N)
\* records of highest primary metric among all records added: it has that
\* size and no evicted record scores higher than a kept one.
BestKeepsTopRecords ==
  (archive_mode = "best" /\ n_added > 0) =>
    /\ Len(programs) = Min(population_size, Len(disk))
    /\ \A p \in Range(programs) : \A q \in Evicted : Primary(q) <= Primary(p)

\* capacity 3 and accuracies 0.5, 0.8, 0.7, 0.9, 0.6 (as levels 1, 4, 3, 5, 2)
\* added in that order leave the records with 0.9, 0.8, 0.7
BestScenario ==
  /\ archive_mode = "best"
  /\ population_size = 3
  /\ [i \in 1..Len(disk) |-> Primary(disk[i])] = <<1, 4, 3, 5, 2>>
  /\ {Primary(p) : p \in Range(programs)} = {5, 4, 3}

\* q beats p on every configured metric
StrictlyDominates(q, p) ==
  \A m \in Range(metrics) : ScoreGet(q, m) > ScoreGet(p, m)

\* the records of pop that no other record of pop beats on every metric
Undominated(pop) ==
  {p \in Range(pop) : ~\E q \in Range(pop) : StrictlyDominates(q, p)}

\* C3: _get_pareto_front never returns a record that another record of the
\* population dominates on every configured metric, whenever the number of
\* non-dominated records is at most the capacity.  Stated over the call that
\* add_program makes on the population with the new record inserted.
ParetoFrontExcludesDominated ==
  [][(archive_mode = "pareto" /\ to_keep' # <<>>) =>
       LET pop == Append(programs, disk'[Len(disk')])
       IN  Cardinality(Undominated(pop)) <= population_size =>
             \A p \in Range(pop) :
               p.id \in Range(to_keep') => p \in Undominated(pop)]_vars

(***************************************************************************)
(* Properties of the evaluation pipeline.                                  *)
(***************************************************************************)
HasSentinel(v) ==
  /\ v.type = "dict"
  /\ \/ ("error" \in DOMAIN v.items /\ v.items["error"] = SentinelValue)
     \/ ("timeout" \in DOMAIN v.items /\ v.items["timeout"] = SentinelValue)

\* the scoring entry point returned a metric mapping within the timeout
Succeeded(c) == c.outcome = "dict" /\ ~c.timed_out

\* C4: evaluate never raises to its caller; a failed evaluation (exception,
\* non-dict return, timeout, crashed subprocess, malformed output) returns a
\* mapping with "error" or "timeout" set to 1.0, a successful one returns a
\* mapping with at least one metric.
EvaluateResultConvention ==
  \A i \in DOMAIN calls :
    /\ calls[i].pc # "raised"
    /\ calls[i].pc = "returned" =>
         /\ calls[i].result.type = "dict"
         /\ Succeeded(calls[i]) => DOMAIN calls[i].result.items # {}
         /\ ~Succeeded(calls[i]) => HasSentinel(calls[i].result)

\* C5: when the scoring entry point has not returned within the timeout,
\* evaluate returns exactly {"timeout": 1.0}, in both execution modes.
TimeoutYieldsTimeoutResult ==
  \A i \in DOMAIN calls :
    (calls[i].pc = "returned" /\ calls[i].timed_out) =>
      calls[i].result = TimeoutResult

\* C6: never more than max_workers invocations of the scoring entry point
\* execute at the same time, in either execution mode and for every
\* max_concurrent of batch_evaluate.
RunningWithinWorkers == Cardinality(Running) <= max_workers

\* what evaluate makes of the value its execution mode produced for call c
ResultOf(c) ==
  IF c.outcome = "timeout" THEN TimeoutResult
  ELSE IF c.outcome = "dict"
    THEN IF c.cascade
           THEN Dict(_apply_cascade(cascade_thresholds, ScoreOf(c.program)))
           ELSE Dict(ScoreOf(c.program))
  ELSE c.result

\* C7: batch_evaluate returns a list as long as its input whose element i is
\* the result of evaluating input i, whatever the order of completion.
BatchPreservesOrder ==
  batch.status = "returned" =>
    /\ Len(batch.results) = Len(batch.programs)
    /\ \A i \in 1..Len(batch.programs) :
         /\ calls[i].program = batch.programs[i]
         /\ batch.results[i] = ResultOf(calls[i])

\* two inputs, the second finishing before the first, both scored
StaggeredBatchReturned ==
  /\ batch.status = "returned"
  /\ Len(batch.programs) = 2
  /\ finish_order = <<2, 1>>
  /\ \A i \in 1..2 : calls[i].outcome = "dict"

\* C8: the failure of one item of a batch neither cancels nor discards its
\* siblings: with a failed item i and a sibling j, batch_evaluate does not
\* raise, and when it returns both results are at their own index.
BatchContainsFailures ==
  \A i \in DOMAIN calls : \A j \in DOMAIN calls :
    (batch.status # "none" /\ i # j /\ i \in Ended /\ ~Succeeded(calls[i])) =>
      /\ batch.status # "raised"
      /\ batch.status = "returned" =>
           /\ batch.results[i] = calls[i].result
           /\ batch.results[j] = calls[j].result

\* rule k of the thresholds passes on the mapping m
RulePasses(k, m) ==
  LET metric == cascade_thresholds[k][1]
      threshold == cascade_thresholds[k][2]
  IN  metric \notin DOMAIN m \/ m[metric] >= threshold

\* C9: with cascade=true evaluate returns, at the first rule in configured
\* order whose metric is present with a value strictly below its threshold,
\* exactly {metric: value}; the full mapping if no rule fails; and always the
\* full mapping with cascade=false.
CascadeReturnsFirstFailure ==
  \A i \in DOMAIN calls :
    (calls[i].pc = "returned" /\ calls[i].metrics.type = "dict") =>
      LET m == calls[i].metrics.items
          r == calls[i].result
          rules == DOMAIN cascade_thresholds
      IN  /\ r.type = "dict"
          /\ ~calls[i].cascade => r.items = m
          /\ (calls[i].cascade /\ \A k \in rules : RulePasses(k, m)) =>
               r.items = m
          /\ calls[i].cascade =>
               \A k \in rules :
                 (~RulePasses(k, m) /\ \A j \in 1..(k-1) : RulePasses(j, m)) =>
                   /\ DOMAIN r.items = {cascade_thresholds[k][1]}
                   /\ r.items[cascade_thresholds[k][1]]
                        = m[cascade_thresholds[k][1]]

\* thresholds {first: 0.7, second: 0.7, third: 0.5} and the scores
\* {first: 0.6, second: 0.8, third: 0.4} give exactly {first: 0.6}
CascadeScenario ==
  /\ cascade_thresholds =
       << <<"first_test", 7>>, <<"second_test", 7>>, <<"third_test", 5>> >>
  /\ \E i \in DOMAIN calls :
       /\ calls[i].pc = "returned"
       /\ calls[i].cascade
       /\ calls[i].metrics = Dict(ScoreOf("v1"))
       /\ calls[i].result = Dict([first_test |-> 6])

(***************************************************************************)
(* Properties of the archive's queries.                                    *)
(***************************************************************************)
\* C19: sample_programs on a population of N >= 1 records returns a parent
\* from the population and, as inspirations, the min(3, N-1) records of
\* highest primary metric among the others, in descending order of the
\* primary metric, the parent never among them.
SampleContract ==
  query.op = "sample" =>
    LET parent == query.parent[1]
        inspirations == query.result
        others == {p \in Range(programs) : p.id # parent.id}
    IN  /\ parent \in Range(programs)
        /\ Len(inspirations) = Min(3, Len(programs) - 1)
        /\ \A i \in DOMAIN inspirations : inspirations[i] \in others
        /\ \A i \in DOMAIN inspirations : \A j \in DOMAIN inspirations :
             i < j => /\ inspirations[i].id # inspirations[j].id
                      /\ Primary(inspirations[i]) >= Primary(inspirations[j])
        /\ \A q \in others \ Range(inspirations) :
             \A i \in DOMAIN inspirations :
               Primary(inspirations[i]) >= Primary(q)

\* five records, the best of them picked as the parent: the inspirations are
\* the next three, and one record is neither
SampledFromFive ==
  /\ query.op = "sample"
  /\ Len(programs) = 5
  /\ Len(query.result) = 3
  /\ \A p \in Range(programs) : Primary(query.parent[1]) >= Primary(p)
  /\ Primary(query.result[1]) > Primary(query.result[3])

Has(p, metric) == metric \in DOMAIN p.scores

\* C20: a record that lacks the compared metric never wins a comparison
\* against a record that has it: get_best_program returns a record with the
\* metric when there is one, get_top_programs lists every record with the
\* metric before any record without it and leaves out none of them while it
\* lists one without, and under the best policy no record lacking the
\* primary metric is kept while one that has it was evicted.
MissingMetricRanksLast ==
  LET m == MetricOrPrimary(query.metric)
      r == query.result
  IN  /\ (query.op = "get_best" /\ r # <<>>) =>
           ((\E p \in Range(programs) : Has(p, m)) => Has(r[1], m))
      /\ query.op = "get_top" =>
           /\ \A i \in DOMAIN r : \A j \in DOMAIN r :
                (i < j /\ Has(r[j], m)) => Has(r[i], m)
           /\ \A p \in Range(programs) \ Range(r) :
                Has(p, m) => \A i \in DOMAIN r : Has(r[i], m)
      /\ (archive_mode = "best" /\ n_added > 0) =>
           ((\E q \in Evicted : Has(q, metrics[1])) =>
              \A p \in Range(programs) : Has(p, metrics[1]))

\* under the best policy a record without the primary metric was evicted,
\* and the top record asked for is one with the metric although the first
\* record of the population has none
RankedWithMissing ==
  /\ archive_mode = "best"
  /\ \E q \in Evicted : ~Has(q, metrics[1])
  /\ query.op = "get_top"
  /\ query.limit = 1
  /\ Len(programs) = 2
  /\ ~Has(programs[1], MetricOrPrimary(query.metric))
  /\ Has(query.result[1], MetricOrPrimary(query.metric))

\* C21: get_best_program returns None on an empty archive; otherwise it
\* returns one record of the population whose value of the given metric (the
\* primary metric when none is given) is the maximum, and of the records
\* tied for the maximum the first one in the population's iteration order.
GetBestReturnsFirstMaximum ==
  query.op = "get_best" =>
    LET m == MetricOrPrimary(query.metric)
    IN  IF programs = <<>> THEN query.result = <<>>
        ELSE /\ Len(query.result) = 1
             /\ \E i \in DOMAIN programs :
                  /\ query.result[1] = programs[i]
                  /\ \A j \in DOMAIN programs :
                       ScoreGet(programs[j], m) <= ScoreGet(programs[i], m)
                  /\ \A j \in 1..(i-1) :
                       ScoreGet(programs[j], m) < ScoreGet(programs[i], m)

\* two records tied for the maximum of a named secondary metric, and the
\* first of them was returned
BestAmongTied ==
  /\ query.op = "get_best"
  /\ query.metric = "performance"
  /\ Len(programs) = 2
  /\ Has(programs[1], "performance")
  /\ ScoreGet(programs[1], "performance") = ScoreGet(programs[2], "performance")
  /\ query.result = <<programs[1]>>

(***************************************************************************)
(* Properties of durable storage.                                          *)
(***************************************************************************)
\* the last add_program call met a failing durable write
WriteFailed == add_result.fault \in {"record", "code_file", "all"}

EvictionMarksInactive ==
  [][next_id' = next_id + 1 =>
       /\ SubSeq(disk', 1, Len(disk)) = disk
       /\ \A id \in (Range(Ids(programs)) \cup {next_id})
                       \ Range(Ids(programs')) :
            id \in marked_inactive']_vars

\* an archive object that was constructed over a store holding records and
\* on which nothing was called yet
Loaded == n_added = 0 /\ add_result = NoAdd /\ next_id > 1

\* C18: a fresh archive constructed over the same storage holds every record
\* that an add_program persisted, with the id, code, scores and parent_id it
\* was written with.
ReloadRoundTrip ==
  Loaded =>
    \A r \in Range(disk) \cup Range(fallback_files) :
      \E p \in Range(programs) :
        /\ p.id = r.id
        /\ p.code = r.code
        /\ p.scores = r.scores
        /\ p.parent_id = r.parent_id

\* the record created with this id, wherever it is held now
Created(id) ==
  CHOOSE r \in Range(programs) \cup Range(disk) \cup Range(fallback_files) :
    r.id = id

\* the ids of the ancestors of a record, the parent first
RECURSIVE Lineage(_)
Lineage(id) ==
  IF Created(id).parent_id = NoParent THEN <<>>
  ELSE <<Created(id).parent_id>> \o Lineage(Created(id).parent_id)

GeneratorFailureContained ==
  ~(ctl_pc = "raised" /\ failure = "generate")

\* number of times run() made the call op
Count(op) == Cardinality({i \in DOMAIN ops : ops[i] = op})

\* the "sample" that began the iteration of ops[i]
IterationStart(i) ==
  CHOOSE k \in 1..i :
    ops[k] = "sample" /\ \A j \in (k+1)..i : ops[j] # "sample"

\* what run() did after ops[i]
CallsAfter(i) ==
  SelectSeq(SubSeq(ops, i + 1, Len(ops)), LAMBDA op : op # "stop")

\* C11: when apply_changes raises in an iteration, the exception is caught;
\* that iteration calls neither evaluate nor add_program and leaves the
\* archive as it was, the counter has counted the iteration, and run() goes
\* on with the loop: it is not left by the exception, and what it does next
\* is start the next iteration.
PatchFailureContained ==
  \A i \in DOMAIN ops :
    (ops[i] = "apply_changes" /\ i < Len(ops) /\ ops[i+1] = "except") =>
      /\ \A k \in IterationStart(i)..(i+1) :
           ops[k] \notin {"evaluate", "add_program"}
      /\ IF CallsAfter(i + 1) = <<>>
           THEN /\ ctl_pc \in {"loop", "returned"}
                /\ Len(disk) = disk_at_start
                /\ current_iteration = Count("sample")
           ELSE CallsAfter(i + 1)[1] = "sample"

\* the patcher failed in the first iteration and the second one has begun
PatchFailedThenNextIteration ==
  /\ current_iteration = 2
  /\ Len(ops) >= 6
  /\ SubSeq(ops, 1, 6) = <<"sample", "prompt", "generate", "apply_changes",
                            "except", "sample">>

\* C12: the counter never exceeds max_iterations, it counts exactly the
\* iterations run() began, and so run() begins at most max_iterations
\* iterations (the counter starts at 0).
IterationsWithinLimit ==
  /\ current_iteration <= max_iterations
  /\ Count("sample") = current_iteration
  /\ Count("sample") <= max_iterations

\* run() returned because of the iteration limit alone, after two iterations
StoppedByIterationLimit ==
  /\ ctl_pc = "returned"
  /\ max_iterations = 2
  /\ current_iteration = max_iterations
  /\ ~stopped
  /\ budget = NoBudget
  /\ target_score = NoTarget

\* what a run has used of a budget resource
Usage(resource) ==
  IF resource = "llm_calls" THEN call_count ELSE elapsed_hours

\* C13: no iteration begins while a resource named in the budget has a usage
\* greater than or equal to its limit.
BudgetRespected ==
  [][current_iteration' > current_iteration =>
       \A resource \in DOMAIN budget : Usage(resource) < budget[resource]]_vars

\* every metric of target_score has, on the best record by primary metric, a
\* score greater than or equal to its target, and there is such a metric
TargetMet ==
  /\ target_score # <<>>
  /\ programs # <<>>
  /\ \A k \in DOMAIN target_score :
       LET best_program == get_best_program(programs, metrics[1])
       IN  /\ Has(best_program, target_score[k][1])
           /\ best_program.scores[target_score[k][1]] >= target_score[k][2]

\* C14: at a stop check that no other criterion decides, run() stops exactly
\* when TargetMet holds, and otherwise begins the next iteration.
TargetStopExact ==
  [][(/\ ctl_pc = "loop"
      /\ ctl_pc' # "loop"
      /\ ~stopped
      /\ current_iteration < max_iterations
      /\ \A resource \in DOMAIN budget :
           get_resource_usage(resource) < budget[resource]) =>
       IF TargetMet
         THEN ctl_pc' = "returned" /\ current_iteration' = current_iteration
         ELSE current_iteration' = current_iteration + 1]_vars

\* C15: after stop() no iteration begins, and the run that was stopped ends
\* by returning the best records.
StopHonouredAtBoundary ==
  /\ \A i \in DOMAIN ops : \A j \in DOMAIN ops :
       (ops[i] = "stop" /\ i < j) => ops[j] # "sample"
  /\ (stopped /\ ctl_pc \in {"returned", "raised"}) =>
       /\ ctl_pc = "returned"
       /\ run_result = get_best_programs(programs, metrics)

(***************************************************************************)
(* Properties of the evaluator's failure handling.                         *)
(***************************************************************************)
\* C24: when the scoring entry point returned a value that is not a mapping,
\* or the isolated process exited non-zero or printed malformed output,
\* evaluate returns a mapping with "error" set to 1.0; it never returns the
\* non-mapping value.
NonMappingIsFailure ==
  \A i \in DOMAIN calls :
    (calls[i].outcome \in {"nondict", "exit", "garbage"}) =>
      /\ calls[i].pc = "returned"
      /\ calls[i].result.type = "dict"
      /\ "error" \in DOMAIN calls[i].result.items
      /\ calls[i].result.items["error"] = SentinelValue

\* C25: once an evaluate call has returned or raised, neither its program
\* file nor its runner script exists any more, whatever way it ended.
TempFilesRemoved ==
  \A i \in DOMAIN calls :
    calls[i].pc \in {"returned", "raised"} => FilesOf(i) \cap tmp_files = {}

\* C26: in in-process mode, once every evaluation has ended the working
\* directory of the process is the one it had before the evaluations
\* started, for every interleaving of the executor's threads.
WorkingDirectoryRestored ==
  (~use_subprocess /\ \A i \in DOMAIN calls : i \in Ended) => cwd = StartDir

\* C27: after cleanup() no evaluate call invokes the scoring entry point: no
\* step taken after the shutdown starts a run of the entry point.
NoScoringAfterShutdown ==
  [][shut_down =>
       \A i \in DOMAIN calls' :
         calls'[i].pc = "running" =>
           (i \in DOMAIN calls /\ calls[i].pc = "running")]_vars

(***************************************************************************)
(* Properties of LLMInterface.generate.                                    *)
(***************************************************************************)
\* the calls of the generate() call made to the primary model
PrimaryCalls == {i \in DOMAIN llm_calls : llm_calls[i].model = PrimaryModel}

\* C28: generate calls the primary model at most retry_attempts times, then
\* each fallback model once in the configured order, and stops at the first
\* success; it calls no fallback before retry_attempts primary calls have
\* failed, makes at most retry_attempts + len(fallback_models) calls, returns
\* exactly when its last call succeeded, and raises exactly when all
\* retry_attempts + len(fallback_models) calls were made and failed.
GenerateRetryThenFallback ==
  LET n == Len(llm_calls)
      primaries == Cardinality(PrimaryCalls)
  IN  /\ n <= retry_attempts + Len(fallback_models)
      /\ primaries <= retry_attempts
      /\ PrimaryCalls = 1..primaries
      /\ \A i \in (primaries + 1)..n :
           /\ primaries = retry_attempts
           /\ llm_calls[i].model = fallback_models[i - primaries]
      /\ \A i \in 1..(n - 1) : ~llm_calls[i].ok
      /\ gen_pc = "returned" <=> (n > 0 /\ llm_calls[n].ok)
      /\ gen_pc = "raised" <=>
           /\ gen_pc \notin {"idle", "primary", "fallback"}
           /\ n = retry_attempts + Len(fallback_models)
           /\ \A i \in 1..n : ~llm_calls[i].ok

\* with the default three attempts and two fallback models, the second
\* generate call of the interface returned the answer of the last fallback
\* after four failures
LastFallbackAnswered ==
  /\ retry_attempts = RetryAttempts
  /\ Len(fallback_models) = 2
  /\ call_count = 2
  /\ gen_pc = "returned"
  /\ Len(llm_calls) = 5
  /\ llm_calls[5].model = fallback_models[2]

(***************************************************************************)
(* Properties of the controller's iterations.                              *)
(***************************************************************************)
\* C23: in a run of the controller every record's parent_id is null or the
\* id of a record created strictly earlier, so the parent links form a
\* forest without cycles, and the parent is in the archive when
\* add_program is called for the child.
ParentForest ==
  /\ \A i \in DOMAIN disk :
       disk[i].parent_id # NoParent =>
         \E j \in 1..(i-1) : disk[j].id = disk[i].parent_id
  /\ \A p \in Range(programs) : \E i \in DOMAIN disk : disk[i] = p
  /\ ctl_pc = "add" => parent_program[1] \in Range(Lookup(programs, parent_program[1].id))

\* a child of a child was added after its grandparent, the seed, had been
\* evicted
GrandchildAdded ==
  /\ Len(disk) = 3
  /\ disk[2].parent_id = disk[1].id
  /\ disk[3].parent_id = disk[2].id
  /\ disk[1] \notin Range(programs)

\* the calls of run(), without the stop() calls made from outside
RunOps == SelectSeq(ops, LAMBDA op : op # "stop")

\* the calls of an iteration up to add_program
IterationSteps ==
  <<"sample", "prompt", "generate", "apply_changes", "evaluate", "add_program">>

\* C29: every iteration that reaches add_program has called, once each and
\* in this order with nothing in between, sample_programs, construct_prompt,
\* generate, apply_changes, evaluate and add_program, and the record added
\* holds the code apply_changes returned, the scores evaluate returned and
\* the id of the parent sample_programs returned in that iteration.
IterationDataFlow ==
  LET log == RunOps IN
  /\ \A k \in DOMAIN log :
       log[k] = "add_program" =>
         /\ k >= Len(IterationSteps)
         /\ SubSeq(log, k - Len(IterationSteps) + 1, k) = IterationSteps
  /\ (log # <<>> /\ log[Len(log)] = "add_program") =>
       /\ Len(disk) = disk_at_start + 1
       /\ disk[Len(disk)].code = child_program
       /\ child_program = PatchedCode
       /\ disk[Len(disk)].scores = eval_scores
       /\ disk[Len(disk)].parent_id = parent_program[1].id

\* the second iteration of a run added a child of the seed whose evaluation
\* had failed, with the failure mapping as its scores
SecondChildOfSeed ==
  /\ Count("add_program") = 2
  /\ RunOps[Len(RunOps)] = "add_program"
  /\ disk[3].parent_id = disk[1].id
  /\ disk[3].code # disk[1].code
  /\ disk[3].scores = [error |-> SentinelValue]

\* the calls run() made since the last sample_programs call
RECURSIVE LastIterationOps(_)
LastIterationOps(log) ==
  IF log = <<>> THEN <<>>
  ELSE IF log[Len(log)] = "sample" THEN <<>>
  ELSE Append(LastIterationOps(SubSeq(log, 1, Len(log) - 1)), log[Len(log)])

\* C30: with a MetaPrompter configured, an iteration whose counter is a
\* positive multiple of 10 does not end before evolve_prompts was called with
\* the current templates and the top records and, when it returned, its
\* templates were merged, whatever patch, evaluation and add_program did.
EvolutionEveryTenth ==
  (/\ meta_prompter
   /\ ctl_pc \in {"loop", "returned"}
   /\ "sample" \in Range(ops)
   /\ current_iteration > 0
   /\ current_iteration % MetaInterval = 0) =>
    /\ "evolve_prompts" \in Range(LastIterationOps(RunOps))
    /\ evolve_calls # <<>>
    /\ evolve_calls[Len(evolve_calls)].iteration = current_iteration
    /\ evolve_calls[Len(evolve_calls)].successful_programs =
         get_top_programs(programs, metrics[1], TopLimit)

(***************************************************************************)
(* Properties of the pareto and diverse retention policies.                *)
(***************************************************************************)
\* q is no worse than p on every configured metric
NoWorse(q, p) ==
  \A m \in Range(metrics) : ScoreGet(q, m) >= ScoreGet(p, m)

\* the records of pop that no other record of pop is no worse than on every
\* metric
Front(pop) ==
  {p \in Range(pop) : ~\E q \in Range(pop) : q.id # p.id /\ NoWorse(q, p)}

\* C31: under the pareto policy an add_program that makes the population
\* exceed population_size keeps exactly population_size records: all
\* non-dominated records plus the dominated records of highest primary
\* metric when the non-dominated ones are at most population_size, and only
\* non-dominated records when they are more.
ParetoKeepsFrontThenFills ==
  [][(archive_mode = "pareto" /\ to_keep' # <<>>) =>
       LET pop == Append(programs, disk'[Len(disk')])
           front == Front(pop)
           kept == Range(programs')
           evicted == Range(pop) \ kept
       IN  /\ Cardinality(kept) = population_size
           /\ Len(programs') = population_size
           /\ kept \subseteq Range(pop)
           /\ IF Cardinality(front) <= population_size
                 THEN /\ front \subseteq kept
                      /\ \A p \in kept \ front : \A q \in evicted :
                           Primary(p) >= Primary(q)
                 ELSE kept \subseteq front]_vars

\* a front of one record was filled up with the dominated record of higher
\* primary metric, and the other dominated record was evicted
ParetoFrontFilled ==
  /\ archive_mode = "pareto"
  /\ population_size = 2
  /\ Len(disk) = 3
  /\ to_keep # <<>>
  /\ Cardinality(Front(disk)) = 1
  /\ \E p \in Range(programs) \ Front(disk) : \E q \in Evicted :
       Primary(p) > Primary(q)

\* C32: under the diverse policy an add_program that makes the population
\* exceed population_size keeps exactly population_size distinct records:
\* the population_size \div 2 records of highest primary metric, and of the
\* other records the most recently created ones.
DiverseKeepsBestHalfAndNewest ==
  [][(archive_mode = "diverse" /\ to_keep' # <<>>) =>
       LET pop == Range(Append(programs, disk'[Len(disk')]))
           kept == Range(programs')
           evicted == pop \ kept
       IN  /\ Cardinality(kept) = population_size
           /\ Len(programs') = population_size
           /\ kept \subseteq pop
           /\ \E best \in SUBSET kept :
                /\ Cardinality(best) = population_size \div 2
                /\ \A b \in best : \A p \in pop \ best :
                     Primary(b) >= Primary(p)
                /\ \A k \in kept \ best : \A q \in evicted :
                     k.timestamp >= q.timestamp]_vars

\* of three records the oldest, which has the highest primary metric, and
\* the newest were kept, and a record that scores higher than the newest
\* was evicted
DiverseKeptOldBestAndNewest ==
  /\ archive_mode = "diverse"
  /\ population_size = 2
  /\ Len(disk) = 3
  /\ to_keep # <<>>
  /\ Ids(programs) = <<1, 3>>
  /\ disk[1].timestamp < disk[2].timestamp
  /\ disk[2].timestamp < disk[3].timestamp
  /\ Primary(disk[2]) > Primary(disk[3])

(***************************************************************************)
(* Properties of batch_evaluate's semaphore.                               *)
(***************************************************************************)
\* the tasks of the batch whose evaluate() has started and not ended
InProgress == {i \in DOMAIN calls : calls[i].pc \in {"queued", "running"}}

\* max_concurrent when it is given (0 stands for None), else max_workers
ConcurrencyLimit ==
  IF batch.max_concurrent = 0 THEN max_workers ELSE batch.max_concurrent

\* C33: during batch_evaluate(programs, max_concurrent) at most
\* max_concurrent evaluations of the batch are in progress at any time
\* (max_workers of them when max_concurrent is not given), and when every
\* scoring call ends, every input's evaluation is eventually started and
\* ended.
BatchBoundedAndCompleted ==
  /\ [](batch.status # "none" => Cardinality(InProgress) <= ConcurrencyLimit)
  /\ \A i \in 1..MaxBatch :
       (batch.status # "none" /\ i \in DOMAIN calls)
         ~> (/\ i \in DOMAIN calls
             /\ calls[i].outcome # "none"
             /\ calls[i].pc \in {"returned", "raised"})

\* with max_concurrent = 1 the second input's evaluation runs once the
\* first has ended
SecondStartedAfterFirstEnded ==
  /\ batch.status = "running"
  /\ batch.max_concurrent = 1
  /\ max_workers = 2
  /\ Len(calls) = 2
  /\ calls[1].pc = "returned"
  /\ calls[2].pc = "running"

(***************************************************************************)
(* Properties of LLMInterface's counters.                                  *)
(***************************************************************************)
\* no generate call is in flight
GenerateEnded == gen_pc \in {"idle", "returned", "raised"}

\* every primary-model attempt of the generate call in flight, or of the one
\* that ended last, was made and failed
PrimaryExhausted ==
  /\ gen_pc # "idle"
  /\ Cardinality(PrimaryCalls) = retry_attempts
  /\ \A i \in PrimaryCalls : ~llm_calls[i].ok

\* C34: a generate call adds exactly 1 to call_count, when it begins and
\* whatever retries and fallbacks follow, and adds exactly 1 to failed_calls
\* exactly when every primary-model attempt failed, whether or not a
\* fallback then answers; so failed_calls <= call_count in every state.
GenerateCounters ==
  /\ [](failed_calls <= call_count)
  /\ [][/\ call_count' = call_count + (IF GenerateEnded THEN 1 ELSE 0)
        /\ failed_calls' - (IF PrimaryExhausted' THEN 1 ELSE 0) =
             IF GenerateEnded THEN failed_calls
             ELSE failed_calls - (IF PrimaryExhausted THEN 1 ELSE 0)]_vars

\* of two generate calls the first was answered by the primary model and the
\* second, after three failed primary attempts, by a fallback model
SecondCallFellBack ==
  /\ retry_attempts = RetryAttempts
  /\ call_count = 2
  /\ failed_calls = 1
  /\ gen_pc = "returned"
  /\ Len(llm_calls) = retry_attempts + 1
  /\ llm_calls[Len(llm_calls)].model = fallback_models[1]

(***************************************************************************)
(* Properties of should_stop's target check.                               *)
(***************************************************************************)
\* the best record by primary metric lacks a metric of target_score
BestLacksTarget ==
  /\ target_score # <<>>
  /\ programs # <<>>
  /\ \E k \in DOMAIN target_score :
       ~Has(get_best_program(programs, metrics[1]), target_score[k][1])

\* C35: a metric of target_score that the best record lacks counts as the
\* worst possible value and so as not reached, whatever its target: a stop
\* check that no other criterion decides answers False while the best
\* record lacks such a metric, and the next iteration begins.
MissingTargetMetricNotMet ==
  [][(/\ ctl_pc = "loop"
      /\ ctl_pc' # "loop"
      /\ ~stopped
      /\ current_iteration < max_iterations
      /\ \A resource \in DOMAIN budget :
           get_resource_usage(resource) < budget[resource]
      /\ BestLacksTarget) =>
       /\ ctl_pc' \notin {"returned", "raised"}
       /\ current_iteration' = current_iteration + 1]_vars

(***************************************************************************)
(* Properties of what an add_program evicts.                               *)
(***************************************************************************)
\* the primary score of get_best_program() on the population pop
BestPrimary(pop) == Primary(get_best_program(pop, metrics[1]))

\* C36: under the pareto and diverse policies, for every population_size
\* >= 1, no add_program evicts every record of highest primary metric: the
\* primary score of get_best_program() after an add_program is at least
\* what it was before it.  Stated for the adds made on a population that is
\* within its capacity.
BestScoreNeverDecreases ==
  [][(/\ archive_mode \in {"pareto", "diverse"}
      /\ programs # <<>>
      /\ Len(programs) <= population_size
      /\ n_added' = n_added + 1) =>
       /\ programs' # <<>>
       /\ BestPrimary(programs') >= BestPrimary(programs)]_vars

\* C40: for every non-empty population the set of non-dominated records that
\* _get_pareto_front computes is non-empty, also when records have identical
\* scores on all configured metrics.  Stated over the calls that add_program
\* makes, on the population with the new record inserted.
ParetoFrontNonEmpty ==
  [][(archive_mode = "pareto" /\ to_keep' # <<>>) =>
       NonDominated(Append(programs, disk'[Len(disk')]), metrics) # <<>>]_vars

\* the lowest primary score of the population pop
LowestPrimary(pop) ==
  CHOOSE v \in {Primary(p) : p \in Range(pop)} :
    \A p \in Range(pop) : v <= Primary(p)

\* C37: under the best policy, when add_program is called on a population
\* of exactly population_size records, the new record is in the population
\* when add_program returns exactly if its primary score (negative infinity
\* when missing) is strictly greater than the lowest primary score present
\* before the call; otherwise the new record is the one evicted and the id
\* add_program returns is not in the population.
NewRecordKeptIffAboveLowest ==
  [][(/\ archive_mode = "best"
      /\ Len(programs) = population_size
      /\ n_added' = n_added + 1) =>
       LET new_program == disk'[Len(disk')]
           kept == add_result'.id \in Range(Ids(programs'))
       IN  /\ new_program.id = add_result'.id
           /\ kept <=> Primary(new_program) > LowestPrimary(programs)
           /\ ~kept => programs' = programs]_vars

\* an add_program whose score ties with the lowest score of a full
\* population returned an id that is not in the population
TiedNewcomerEvicted ==
  /\ archive_mode = "best"
  /\ population_size = 2
  /\ Len(disk) = 3
  /\ n_added = 3
  /\ add_result.id = 3
  /\ Ids(programs) = <<1, 2>>
  /\ Primary(disk[3]) = Primary(disk[1])
  /\ Primary(disk[1]) < Primary(disk[2])

(***************************************************************************)
(* Properties of the capacity bound under write failures and re-opening.   *)
(***************************************************************************)
\* C38: when the durable write fails during an add_program called on a
\* population of population_size records, the population still holds at most
\* population_size records after the call.
CapacityHoldsAfterFailedWrite ==
  [][(/\ next_id' = next_id + 1
      /\ Len(programs) = population_size
      /\ add_result'.fault \in {"record", "code_file", "all"}) =>
       Len(programs') <= population_size]_vars

\* C39: a record that the retention policy evicted is not in the population
\* of an archive object constructed later over the same storage: the loaded
\* population holds only records that were in the population when the
\* earlier object was last used, so at most population_size of them.
EvictedStayOutOnReopen ==
  [][(/\ add_result # NoAdd
      /\ add_result' = NoAdd
      /\ Len(programs) <= population_size) =>
       /\ Range(Ids(programs')) \subseteq Range(Ids(programs))
       /\ Len(programs') <= population_size]_vars

====
